---- MODULE Spec2Model ----
(***************************************************************************)
(* The example workflows of gurobi-machinelearning as one state machine.   *)
(*                                                                         *)
(* A run executes the statements of one notebook in order on one           *)
(* optimization model m: the price notebook (Avocado_Price_Allocation,     *)
(* whose exported LP file is transcribed below), the student enrollment    *)
(* notebook, or the adversarial notebook.  A run may also be a job of the  *)
(* build-and-test workflow, which executes the steps of the workflow file  *)
(* in order, or a run of tox on the coverage environments of tox.ini.      *)
(*                                                                         *)
(* Numbers are fixed point with one decimal (Scale): a value v of the      *)
(* source is the integer 10 v, an LP coefficient is rounded to one         *)
(* decimal, and an interval bound is rounded into the interval.            *)
(* Probabilities are in thousandths.                                       *)
(*                                                                         *)
(* A variable of m is the tuple <<name, i, j>>: x[2] is <<"x", 2, 0>>,     *)
(* reg_features[2,8] is <<"reg_features", 2, 8>>.                          *)
(***************************************************************************)
EXTENDS Integers, Sequences, FiniteSets, TLC

VARIABLES
    nb,             \* the notebook that runs, "ci" or "coverage"
    pc,             \* index in Program(nb) of the next statement
    raised,         \* "" or the exception that ended the run
    n,              \* rows of the predictor's input (regions, students, images)
    B,              \* price notebook: the supply to distribute
    example,        \* adversarial notebook: the pixels of the chosen image
    embed,          \* adversarial notebook: the function asked to embed nn
    nn,             \* adversarial notebook: the trained network
    studentsdata,   \* enrollment notebook: the data frame of the students
    feats,          \* price notebook: the data frame of the features
    m_vars,         \* m: variable -> <<lb, ub, creator>>
    m_constrs,      \* m: the linear constraints
    m_genconstrs,   \* m: the general (function) constraints
    m_obj,          \* m: the objective
    params,         \* m.Params: the parameters that were set
    out_activation, \* nn.out_activation_
    pred_constr,    \* the predictor constraint object the notebook holds
    calls,          \* history: the calls that embedded a predictor
    solver,         \* "idle" or "running": the external solver process
    status,         \* m.Status
    sol,            \* the solution the solver left in m, or NoSol
    stop,           \* the criterion that ended the solver's last run
    stats,          \* what print_stats last displayed
    error,          \* what get_error last returned
    input_values,   \* what input_values last returned
    display,        \* what the notebook last read from the solution
    python_version, \* CI job: matrix.python-version
    branch,         \* CI job: the branch that was pushed to
    findings,       \* CI job: the flake8 codes the sources give rise to
    failing,        \* the steps and tox environments whose commands fail
    parallel,       \* tox run: started with -p
    ran,            \* the tox environments run so far, in order
    flake8_runs,    \* CI job: the flake8 commands run, what each found
    files,          \* CI job: the files written in the workspace
    github_output,  \* CI job: the step outputs written to $GITHUB_OUTPUT
    coverage_data,  \* the data file of coverage: who appended to it
    reported        \* the data the last coverage report covered

inputs == <<nb, n, B, example, embed, nn, python_version, branch, findings,
            failing, parallel>>
ci == <<ran, flake8_runs, files, github_output, coverage_data, reported>>
frames == <<studentsdata, feats>>
model == <<m_vars, m_constrs, m_genconstrs, m_obj>>
solution == <<status, sol, stop>>
outputs == <<stats, error, input_values, display>>
vars == <<pc, raised, inputs, ci, frames, model, params, out_activation,
          pred_constr, calls, solver, solution, outputs>>

(***************************************************************************)
(* Bounds of the model and constants of the program.                       *)
(***************************************************************************)
MaxRegions == 2
MaxStudents == 2
NPixels == 6
Scale == 10
INFINITY == 1000000
NColumns == 10
PriceColumn == 8
a_min == 0
a_max == 2
\* 0.1, in tenths.
c_waste == 1

\* The supplies B a run may have to distribute: the notebook's 30, and
\* supplies that the regions of a small run can take.
BSet == {50, 100, 300}

V(name, i, j) == <<name, i, j>>
Rows == 0 .. (n - 1)
Min(a, b) == IF a <= b THEN a ELSE b
Max(a, b) == IF a >= b THEN a ELSE b
Abs(a) == IF a >= 0 THEN a ELSE -a

NoSol == <<>>
NoPred == [id |-> 0, predictor |-> "", vars |-> {}, constrs |-> {},
           genconstrs |-> {}, input |-> <<>>, output |-> <<>>]
NoObj == [sense |-> "max", lin |-> <<>>, quad |-> <<>>]
NoStats == [id |-> 0, vars |-> 0, constrs |-> 0, genconstrs |-> 0]

(***************************************************************************)
(* The exported price model, src/unnamed/part_000 (LP format).             *)
(***************************************************************************)
\* Maximize: the transport cost of x[r], in the region order of the rows.
c_transport == <<3, 1, 4, 5, 3, 2, 2, 2>>

\* Bounds of x[r].
min_delivery == <<21, 19, 24, 3, 37, 22, 33, 11>>
max_delivery == <<70, 61, 88, 9, 103, 78, 112, 35>>

\* Bounds section: the fixed entries of reg_features, row by row
\* (column 8, the price, is the variable and stands as 0 here).
reg_features_fixed ==
    << <<0, 0, 0, 0, 0, 0, 0, 70, 0, 10>>,
       <<10, 0, 0, 0, 0, 0, 0, 70, 0, 10>>,
       <<0, 10, 0, 0, 0, 0, 0, 70, 0, 10>>,
       <<0, 0, 10, 0, 0, 0, 0, 70, 0, 10>>,
       <<0, 0, 0, 0, 10, 0, 0, 70, 0, 10>>,
       <<0, 0, 0, 0, 0, 10, 0, 70, 0, 10>>,
       <<0, 0, 0, 0, 0, 0, 10, 70, 0, 10>>,
       <<0, 0, 0, 10, 0, 0, 0, 70, 0, 10>> >>

\* LinearRegressionConstr1.linreg[i,0]: the coefficients of
\* reg_features[i,0..9], of demand[i], and the right-hand side, row by row.
linreg_coef ==
    << <<2, -14, 30, 18, -17, -6, -26, -2, 22, -5>>,
       <<2, -14, 30, 18, -17, -6, -26, -2, 22, -5>>,
       <<2, -14, 30, 18, -17, -6, -26, -2, 22, -5>>,
       <<2, -14, 30, 18, -17, -6, -26, -2, 22, -5>>,
       <<2, -14, 30, 18, -17, -6, -26, -2, 22, -5>>,
       <<2, -14, 30, 18, -17, -6, -26, -2, 22, -5>>,
       <<2, -14, 30, 18, -17, -6, -26, -2, 22, -5>>,
       <<2, -14, 30, 18, -17, -6, -26, -2, 22, -5>> >>
linreg_demand_coef == <<10, 10, 10, 10, 10, 10, 10, 10>>
linreg_rhs == <<54, 54, 54, 54, 54, 54, 54, 54>>

\* The row of reg_features and the entry of demand that linreg[i,0] links.
linreg_row_shared(i) == 0
linreg_row(i) == i

linreg(i) ==
    [name |-> <<"linreg", i, 0>>,
     terms |-> [j \in 1 .. NColumns |->
                    <<linreg_coef[i + 1][j], V("reg_features", linreg_row(i), j - 1)>>]
               \o << <<linreg_demand_coef[i + 1], V("demand", linreg_row(i), 0)>> >>,
     sense |-> "=",
     rhs |-> linreg_rhs[i + 1]]

\* Subject To: the rows R0..R24, coefficients in tenths.
\*   R0: x[0] + ... + x[7] = 30
\*   R1..R8: - x[i] + s[i] <= 0
\*   R9..R16: s[i] - demand[i] <= 0
\*   R17..R24: - x[i] + s[i] + w[i] = 0
lp_row(k) ==
    LET i == (k - 1) % Len(c_transport)
    IN  CASE k = 0 ->
                 [name |-> <<"R", k, 0>>,
                  terms |-> [j \in 1 .. Len(c_transport) |-> <<10, <<"x", j - 1, 0>> >>],
                  sense |-> "=", rhs |-> 300]
          [] k \in 1 .. 8 ->
                 [name |-> <<"R", k, 0>>,
                  terms |-> << <<-10, <<"x", i, 0>> >>, <<10, <<"s", i, 0>> >> >>,
                  sense |-> "<=", rhs |-> 0]
          [] k \in 9 .. 16 ->
                 [name |-> <<"R", k, 0>>,
                  terms |-> << <<10, <<"s", i, 0>> >>, <<-10, <<"demand", i, 0>> >> >>,
                  sense |-> "<=", rhs |-> 0]
          [] k \in 17 .. 24 ->
                 [name |-> <<"R", k, 0>>,
                  terms |-> << <<-10, <<"x", i, 0>> >>, <<10, <<"s", i, 0>> >>,
                               <<10, <<"w", i, 0>> >> >>,
                  sense |-> "=", rhs |-> 0]
lp_constrs == {lp_row(k) : k \in 0 .. 24} \cup {linreg(i) : i \in 0 .. 7}

\* Maximize: - c x[r] - 0.1 w[r] + [ 2 s[r] * reg_features[r,8] ] / 2
lp_objective ==
    [sense |-> "max",
     lin |-> [k \in 1 .. 8 |-> <<-c_transport[k], <<"x", k - 1, 0>> >>]
             \o [k \in 1 .. 8 |-> <<-1, <<"w", k - 1, 0>> >>],
     quad |-> [k \in 1 .. 8 |-> <<1, <<"s", k - 1, 0>>, <<"reg_features", k - 1, 8>> >>]]

(***************************************************************************)
(* Constraints and their meaning on an assignment a: variable -> value.    *)
(* A linear constraint is [name, terms, sense, rhs], terms a sequence of   *)
(* <<coefficient, variable>>.                                              *)
(***************************************************************************)
RECURSIVE SumTerms(_, _)
SumTerms(terms, a) ==
    IF terms = <<>> THEN 0
    ELSE Head(terms)[1] * a[Head(terms)[2]] + SumTerms(Tail(terms), a)

RECURSIVE SumQuad(_, _)
SumQuad(terms, a) ==
    IF terms = <<>> THEN 0
    ELSE Head(terms)[1] * a[Head(terms)[2]] * a[Head(terms)[3]]
         + SumQuad(Tail(terms), a)

VarsOf(c) == {c.terms[k][2] : k \in DOMAIN c.terms}
CoefOf(c, v) == c.terms[CHOOSE k \in DOMAIN c.terms : c.terms[k][2] = v][1]

Sat(c, a) ==
    LET lhs == SumTerms(c.terms, a)
    IN  CASE c.sense = "=" -> lhs = c.rhs * Scale
          [] c.sense = "<=" -> lhs <= c.rhs * Scale
          [] c.sense = ">=" -> lhs >= c.rhs * Scale

InBounds(v, val) == m_vars[v][1] <= val /\ val <= m_vars[v][2]

ObjVal(a) == SumTerms(m_obj.lin, a) + SumQuad(m_obj.quad, a)

\* The objective value v is at least as good as w for the objective's sense.
AsGoodAs(v, w) == IF m_obj.sense = "max" THEN v >= w ELSE v <= w

(***************************************************************************)
(* General constraints: [name, type, terms, const, y, attrs] states        *)
(* y = f(terms . a + const) for the logistic function (piecewise-linear    *)
(* approximation with the attributes attrs) or for max(0, .) (relu).       *)
(***************************************************************************)
\* 1000 / (1 + exp(-z)) for z = -3.0, -2.9, ..., 3.0.
LogisticTable ==
    << 47, 52, 57, 63, 69, 76, 83, 91, 100, 109,
       119, 130, 142, 154, 168, 182, 198, 214, 231, 250,
       269, 289, 310, 332, 354, 378, 401, 426, 450, 475,
       500, 525, 550, 574, 599, 622, 646, 668, 690, 711,
       731, 750, 769, 786, 802, 818, 832, 846, 858, 870,
       881, 891, 900, 909, 917, 924, 931, 937, 943, 948,
       953 >>

\* z in tenths, clipped to the table.
Logistic(z) ==
    LogisticTable[Max(1, Min(Len(LogisticTable), z + (Len(LogisticTable) + 1) \div 2))]

\* The largest error of the approximation, in thousandths, that the
\* attributes allow: with FuncPieces = -1 the absolute error
\* FuncPieceError (held in units of 1e-5), else the solver's own choice.
AutoTolerance == 1
Tolerance(attrs) ==
    IF attrs.FuncPieces = -1 THEN attrs.FuncPieceError \div 100 ELSE AutoTolerance

Arg(g, a) == (SumTerms(g.terms, a) + g.const * Scale) \div Scale

SatGen(g, a) ==
    CASE g.type = "logistic" -> Abs(a[g.y] - Logistic(Arg(g, a))) <= Tolerance(g.attrs)
      [] g.type = "relu" -> a[g.y] = Max(0, Arg(g, a))

(***************************************************************************)
(* The external solver, seen from the notebooks: it searches the points of *)
(* a finite sample of the variables' domains (a lattice per variable, the  *)
(* finite bounds and the values at which a constraint is tight), assigning *)
(* the variables in SearchOrder and keeping what the constraints allow.    *)
(***************************************************************************)
GridMax == 120
GridStep(name) ==
    CASE name = "reg_features" -> 10
      [] name = "x" -> 10
      [] name = "merit" -> 2
      [] OTHER -> 60
Grid(v) == {k * GridStep(v[1]) : k \in 0 .. (GridMax \div GridStep(v[1]))}

\* The value of v that makes the linear constraint c hold with equality,
\* the other variables of c being assigned by a.
SolveFor(c, v, a) ==
    LET k == CoefOf(c, v)
        rest == c.rhs * Scale - SumTerms(c.terms, a @@ (v :> 0))
        den == Abs(k)
        num == IF k < 0 THEN -rest ELSE rest
    IN  IF num % den = 0 THEN {num \div den} ELSE {}

Determined(c, v, a) == v \in VarsOf(c) /\ (VarsOf(c) \ {v}) \subseteq DOMAIN a

Choices(a, v) ==
    LET eqs == {c \in m_constrs : c.sense = "=" /\ Determined(c, v, a)}
        ins == {c \in m_constrs : c.sense # "=" /\ Determined(c, v, a)}
        gens == {g \in m_genconstrs : g.y = v /\ VarsOf(g) \subseteq DOMAIN a}
        bounds == {m_vars[v][1], m_vars[v][2]} \ {INFINITY, -INFINITY}
        cand ==
            IF eqs # {} THEN UNION {SolveFor(c, v, a) : c \in eqs}
            ELSE IF gens # {}
            THEN UNION {LET f == IF g.type = "relu" THEN Max(0, Arg(g, a))
                                 ELSE Logistic(Arg(g, a))
                            t == Tolerance(g.attrs)
                        IN  {f - t - 1, f - t, f, f + t, f + t + 1} : g \in gens}
            ELSE Grid(v) \cup bounds \cup UNION {SolveFor(c, v, a) : c \in ins}
    IN  {val \in cand : InBounds(v, val)}

\* The constraints that v completes hold on a.
Holds(a, v) ==
    /\ \A c \in m_constrs :
           (v \in VarsOf(c) /\ VarsOf(c) \subseteq DOMAIN a) => Sat(c, a)
    /\ \A g \in m_genconstrs :
           (v \in VarsOf(g) \cup {g.y} /\ VarsOf(g) \cup {g.y} \subseteq DOMAIN a)
               => SatGen(g, a)

Extend(A, v) ==
    UNION {{b \in {a @@ (v :> val) : val \in Choices(a, v)} : Holds(b, v)} : a \in A}

SearchNames ==
    <<"x", "merit", "reg_features", "input", "abs_diff", "hidden", "demand",
      "enroll_probability", "y", "s", "w">>

NamedVars(name) ==
    SelectSeq([k \in 1 .. (n * NColumns) |->
                   V(name, (k - 1) \div NColumns, (k - 1) % NColumns)],
              LAMBDA v : v \in DOMAIN m_vars)

RECURSIVE Concat(_)
Concat(ss) == IF ss = <<>> THEN <<>> ELSE Head(ss) \o Concat(Tail(ss))

SearchOrder == Concat([k \in DOMAIN SearchNames |-> NamedVars(SearchNames[k])])

RECURSIVE Search(_, _)
Search(A, vs) == IF vs = <<>> THEN A ELSE Search(Extend(A, Head(vs)), Tail(vs))

Feasible == Search({<<>>}, SearchOrder)

Optimal(F) ==
    LET vals == {ObjVal(a) : a \in F}
        best == CHOOSE v \in vals : \A w \in vals : AsGoodAs(v, w)
    IN  {a \in F : ObjVal(a) = best}

(***************************************************************************)
(* Data frames: a sequence of rows, a row a record of entries, an entry    *)
(* a fixed value or a variable of m.                                       *)
(***************************************************************************)
Fixed(val) == [kind |-> "fixed", val |-> val, var |-> V("", 0, 0)]
VarEntry(v) == [kind |-> "var", val |-> 0, var |-> v]

\* The column of the data frame behind column j of the regression's input.
FeatureColumn(predictor, j) ==
    CASE predictor = "lin_reg" ->
             (CASE j < 7 -> "region"
                [] j = 7 -> "year"
                [] j = PriceColumn -> "price"
                [] OTHER -> "peak")
      [] predictor = "pipe" -> <<"merit", "SAT", "GPA">>[j + 1]

NFeatures(predictor) == IF predictor = "lin_reg" THEN NColumns ELSE 3
InputName(predictor) == IF predictor = "lin_reg" THEN "reg_features" ELSE "input"

(***************************************************************************)
(* The library.  Its code is not part of the sources kept with this        *)
(* model; the operators of this section follow its documented behaviour.   *)
(***************************************************************************)
\* The predictors add_predictor_constr has a translation for.
registered_predictors_all ==
    {"Pipeline", "ColumnTransformer", "StandardScaler", "LinearRegression",
     "LogisticRegression", "MLPRegressor", "MLPClassifier"}
registered_predictors ==
    {"Pipeline", "ColumnTransformer", "StandardScaler", "LinearRegression",
     "LogisticRegression", "MLPRegressor"}

TypeOf(predictor) ==
    CASE predictor = "lin_reg" -> "Pipeline"
      [] predictor = "pipe" -> "Pipeline"
      [] predictor = "nn" -> "MLPClassifier"

\* "" when fn accepts the predictor, or the exception it raises.
Rejects(fn, predictor) ==
    CASE fn = "add_predictor_constr" ->
             IF TypeOf(predictor) \in registered_predictors THEN ""
             ELSE "NotRegistered"
      [] fn = "add_mlp_regressor_constr" ->
             IF out_activation = "identity" THEN "" ELSE "NoModel"

\* The attributes of Gurobi's function constraints, FuncPieceLength and
\* FuncPieceError in units of 1e-5, FuncPieceRatio in tenths.
default_pwl_attributes ==
    [FuncPieces |-> 0, FuncPieceLength |-> 1000, FuncPieceError |-> 100,
     FuncPieceRatio |-> -10]
NoAttrs ==
    [FuncPieces |-> 0, FuncPieceLength |-> 0, FuncPieceError |-> 0,
     FuncPieceRatio |-> 0]

PwlAttributes_ignored(kwargs) == default_pwl_attributes
PwlAttributes(kwargs) ==
    IF "pwl_attributes" \in DOMAIN kwargs THEN kwargs.pwl_attributes
    ELSE default_pwl_attributes

\* The variable that carries entry (i, j) of the regression's input.
InputVar(predictor, input, i, j) ==
    LET e == input[i + 1][FeatureColumn(predictor, j)]
    IN  IF e.kind = "var" THEN e.var ELSE V(InputName(predictor), i, j)

\* The value of a fixed entry (i, j) of the regression's input.
InputValue(predictor, input, i, j) ==
    IF predictor = "lin_reg" THEN reg_features_fixed[i + 1][j + 1]
    ELSE input[i + 1][FeatureColumn(predictor, j)].val

\* The variables created for the fixed entries: lb = ub = the value.
FixedInputVars_loose(id, predictor, input) ==
    LET cells == {ij \in (0 .. Len(input) - 1) \X (0 .. NFeatures(predictor) - 1) :
                      input[ij[1] + 1][FeatureColumn(predictor, ij[2])].kind = "fixed"}
    IN  [v \in {V(InputName(predictor), ij[1], ij[2]) : ij \in cells} |->
            <<InputValue(predictor, input, v[2], v[3]),
              InputValue(predictor, input, v[2], v[3]) + Scale, id>>]
FixedInputVars(id, predictor, input) ==
    LET cells == {ij \in (0 .. Len(input) - 1) \X (0 .. NFeatures(predictor) - 1) :
                      input[ij[1] + 1][FeatureColumn(predictor, ij[2])].kind = "fixed"}
    IN  [v \in {V(InputName(predictor), ij[1], ij[2]) : ij \in cells} |->
            <<InputValue(predictor, input, v[2], v[3]),
              InputValue(predictor, input, v[2], v[3]), id>>]

\* The fitted enrollment pipeline, scaler and logistic regression as one
\* affine function of (merit, SAT, GPA) under the logistic function: the
\* values of one possible fit, the training data being downloaded.
pipe_coef == <<10, -10, -5>>
pipe_intercept == 25

logreg(id, input, output, i, attrs) ==
    [name |-> <<"logreg", i, id>>,
     call |-> id,
     type |-> "logistic",
     terms |-> [j \in 1 .. 3 |-> <<pipe_coef[j], InputVar("pipe", input, i, j - 1)>>],
     const |-> pipe_intercept,
     y |-> output[i + 1],
     attrs |-> attrs]

\* The trained network nn: one hidden layer of NHidden relu neurons over
\* the pixels and one output per label, the weights in tenths.  Neuron k
\* adds the pixels j with j = k modulo NHidden and subtracts the others;
\* output l is gains[l] times neuron l plus the intercept of label l.  The
\* weights are loaded from a file outside the sources: Networks holds the
\* networks a run may load.
NHidden == 3
NLabels == 3
Network(intercepts, gains) ==
    [coefs_1 |-> [k \in 1 .. NHidden |->
                     [j \in 1 .. NPixels |->
                         IF j % NHidden = k % NHidden THEN Scale ELSE -Scale]],
     intercepts_1 |-> [k \in 1 .. NHidden |-> 0],
     coefs_2 |-> [l \in 1 .. NLabels |->
                     [k \in 1 .. NHidden |-> IF k = l THEN gains[l] ELSE 0]],
     intercepts_2 |-> intercepts]
Networks ==
    {Network(<<10, 5, 0>>, <<10, 10, 10>>),
     Network(<<20, 0, 0>>, <<10, 10, 10>>),
     Network(<<30, 0, 0>>, <<10, 10, 10>>),
     Network(<<20, 10, 0>>, <<10, 0, 20>>)}

RECURSIVE Dot(_, _)
Dot(ws, xs) == IF ws = <<>> THEN 0 ELSE Head(ws) * Head(xs) + Dot(Tail(ws), Tail(xs))

\* nn's output for label l on the pixels xs, before the output activation,
\* and nn.predict(xs): the first label of the largest output.
Hidden(xs) ==
    [k \in 1 .. NHidden |->
        Max(0, Dot(nn.coefs_1[k], xs) \div Scale + nn.intercepts_1[k])]
Output(xs) ==
    [l \in 1 .. NLabels |->
        Dot(nn.coefs_2[l], Hidden(xs)) \div Scale + nn.intercepts_2[l]]
Predicted(xs) ==
    LET out == Output(xs)
    IN  CHOOSE l \in 0 .. NLabels - 1 :
            /\ \A k \in 0 .. NLabels - 1 : out[k + 1] <= out[l + 1]
            /\ \A k \in 0 .. l - 1 : out[k + 1] < out[l + 1]

relu(id, input, k) ==
    [name |-> <<"relu", k, id>>,
     call |-> id,
     type |-> "relu",
     terms |-> [j \in 1 .. NPixels |-> <<nn.coefs_1[k + 1][j], input[j]>>],
     const |-> nn.intercepts_1[k + 1],
     y |-> V("hidden", 0, k),
     attrs |-> NoAttrs]

mlp_out(output, l) ==
    [name |-> <<"mlp_out", l, 0>>,
     terms |-> << <<Scale, output[l + 1]>> >>
               \o [k \in 1 .. NHidden |->
                      <<-nn.coefs_2[l + 1][k], V("hidden", 0, k - 1)>>],
     sense |-> "=",
     rhs |-> nn.intercepts_2[l + 1]]

\* What embedding the predictor adds to m, as call number id.
Embedding(id, predictor, input, output, kwargs) ==
    CASE predictor = "lin_reg" ->
             [vars |-> FixedInputVars(id, predictor, input),
              constrs |-> {linreg(i) : i \in 0 .. Len(input) - 1},
              genconstrs |-> {}]
      [] predictor = "pipe" ->
             [vars |-> FixedInputVars(id, predictor, input),
              constrs |-> {},
              genconstrs |-> {logreg(id, input, output, i, PwlAttributes(kwargs)) :
                                  i \in 0 .. Len(input) - 1}]
      [] predictor = "nn" ->
             [vars |-> [v \in {V("hidden", 0, k) : k \in 0 .. NHidden - 1} |->
                           <<0, INFINITY, id>>],
              constrs |-> {mlp_out(output, l) : l \in 0 .. NLabels - 1},
              genconstrs |-> {relu(id, input, k) : k \in 0 .. NHidden - 1}]

Size(vs, cs, gs) == <<Cardinality(DOMAIN vs), Cardinality(cs), Cardinality(gs)>>

\* A change of the model discards the solution of an earlier optimize.
Changed == status' = "LOADED" /\ sol' = NoSol /\ stop' = ""

\* fn(m, predictor, input, output, **kwargs)
Embed(fn, predictor, input, output, kwargs) ==
    LET id == Len(calls) + 1
        e == Embedding(id, predictor, input, output, kwargs)
        exc == Rejects(fn, predictor)
    IN  IF exc # ""
        THEN /\ raised' = exc
             /\ UNCHANGED <<pc, model, solution, pred_constr, calls>>
        ELSE /\ m_vars' = e.vars @@ m_vars
             /\ m_constrs' = m_constrs \cup e.constrs
             /\ m_genconstrs' = m_genconstrs \cup e.genconstrs
             /\ pred_constr' =
                    [id |-> id, predictor |-> predictor,
                     vars |-> DOMAIN e.vars,
                     constrs |-> {c.name : c \in e.constrs},
                     genconstrs |-> {g.name : g \in e.genconstrs},
                     input |-> input, output |-> output]
             /\ calls' = Append(calls,
                    [fn |-> fn, predictor |-> predictor, kwargs |-> kwargs,
                     m |-> model,
                     before |-> Size(m_vars, m_constrs, m_genconstrs),
                     after |-> Size(e.vars @@ m_vars, m_constrs \cup e.constrs,
                                    m_genconstrs \cup e.genconstrs)])
             /\ Changed
             /\ pc' = pc + 1
             /\ UNCHANGED <<raised, m_obj>>

\* pred_constr.remove()
RemoveVars_kept(p) == m_vars
RemoveVars(p) == [v \in DOMAIN m_vars \ p.vars |-> m_vars[v]]
RemoveConstrs(p) == {c \in m_constrs : c.name \notin p.constrs}
RemoveGenConstrs_kept(p) == m_genconstrs
RemoveGenConstrs(p) == {g \in m_genconstrs : g.name \notin p.genconstrs}

\* pred_constr.print_stats()
PrintStats_model(p) ==
    [id |-> p.id, vars |-> Cardinality(DOMAIN m_vars),
     constrs |-> Cardinality(m_constrs), genconstrs |-> Cardinality(m_genconstrs)]
PrintStats(p) ==
    [id |-> p.id, vars |-> Cardinality(p.vars), constrs |-> Cardinality(p.constrs),
     genconstrs |-> Cardinality(p.genconstrs)]

\* The predictor on row i of the input, the input's variables valued by a.
Predict(p, i, a) ==
    CASE p.predictor = "lin_reg" ->
             (linreg_rhs[i + 1] * Scale
              - SumTerms([j \in 1 .. NColumns |->
                             <<linreg_coef[i + 1][j],
                               InputVar("lin_reg", p.input, i, j - 1)>>], a))
             \div linreg_demand_coef[i + 1]
      [] p.predictor = "pipe" ->
             Logistic((SumTerms([j \in 1 .. 3 |->
                                    <<pipe_coef[j], InputVar("pipe", p.input, i, j - 1)>>], a)
                       + pipe_intercept * Scale) \div Scale)

\* pred_constr.get_error()
GetError_signed(p, a) ==
    [k \in 1 .. Len(p.input) |-> Predict(p, k - 1, a) - a[p.output[k]]]
GetError(p, a) ==
    [k \in 1 .. Len(p.input) |-> Abs(Predict(p, k - 1, a) - a[p.output[k]])]

\* pred_constr.input_values
InputValues_numeric(p, a) ==
    [k \in 1 .. Len(p.input) |->
        [c \in DOMAIN p.input[k] \ {"region"} |->
            IF p.input[k][c].kind = "var" THEN Fixed(a[p.input[k][c].var])
            ELSE p.input[k][c]]]
InputValues(p, a) ==
    [k \in 1 .. Len(p.input) |->
        [c \in DOMAIN p.input[k] |->
            IF p.input[k][c].kind = "var" THEN Fixed(a[p.input[k][c].var])
            ELSE p.input[k][c]]]

(***************************************************************************)
(* The notebooks: statements run in order; a statement that raises ends    *)
(* the run; m.optimize() blocks the notebook until the solver returns.     *)
(***************************************************************************)
Program(notebook) ==
    CASE notebook = "price" ->
             <<"create_vars", "set_objective", "supply", "sales", "wastage",
               "feats", "add_predictor_constr", "print_stats", "optimize",
               "solution", "get_error", "input_values">>
      [] notebook = "enroll" ->
             <<"create_vars", "objective_budget", "add_predictor_constr",
               "print_stats", "optimize", "get_error", "remove",
               "add_predictor_constr_pwl", "optimize", "get_error",
               "input_values">>
      [] notebook = "adversarial" ->
             <<"create_vars", "l1_constrs", "set_identity", "embed", "restore",
               "print_stats", "set_params", "optimize", "result">>
      [] notebook = "ci" ->
             <<"checkout", "setup_python", "install_dependencies",
               "install_pandoc", "lint", "write_license", "test_with_tox">>
      [] notebook = "coverage" -> <<"tox">>

Blocked == solver = "running"

At(notebook, stmt) ==
    /\ nb = notebook
    /\ raised = ""
    /\ pc \in DOMAIN Program(nb)
    /\ Program(nb)[pc] = stmt
    /\ ~Blocked

\* The name Gurobi gives the k-th next linear constraint of the notebook.
R(k) == <<"R", Cardinality(m_constrs) + k, 0>>

\* m.addConstr(...) of the notebook's own constraints cs.
AddConstrs(notebook, stmt, cs) ==
    /\ At(notebook, stmt)
    /\ m_constrs' = m_constrs \cup cs
    /\ pc' = pc + 1
    /\ Changed
    /\ UNCHANGED <<raised, inputs, ci, frames, m_vars, m_genconstrs, m_obj, params,
                   out_activation, pred_constr, calls, solver, outputs>>

\* A statement that reads the solution: value(sol) when there is one.
ReadsSolution == IF sol = NoSol THEN "AttributeError" ELSE ""

(***************************************************************************)
(* Price optimization.                                                     *)
(***************************************************************************)
\* The regions in increasing order of their names: the keys of
\* df.groupby("region") and the categories of the fitted OneHotEncoder.
categories ==
    <<"Great_Lakes", "Midsouth", "Northeast", "Northern_New_England",
      "Plains", "SouthCentral", "Southeast", "West">>
regions_sorted == categories
regions ==
    <<"Great_Lakes", "Midsouth", "Northeast", "Northern_New_England",
      "SouthCentral", "Southeast", "West", "Plains">>

\* c_transport = pd.Series({...}): the cost by region, in tenths.
transport_cost ==
    [Great_Lakes |-> 3, Midsouth |-> 1, Northeast |-> 4,
     Northern_New_England |-> 5, SouthCentral |-> 3, Southeast |-> 2,
     West |-> 2, Plains |-> 2]

\* df.groupby("region")["units_sold"].min() and .max(): one entry per
\* category, in the order of categories; the values of the exported bounds.
units_sold_min == <<21, 19, 24, 3, 11, 37, 22, 33>>
units_sold_max == <<70, 61, 88, 9, 35, 103, 78, 112>>

\* The position of the region g in categories.
CategoryOf(g) == CHOOSE k \in DOMAIN categories : categories[k] = g

\* data = pd.concat([c_transport, min_delivery, max_delivery], axis=1):
\* the rows of c_transport.loc[regions], the other columns joined on the
\* region.
data ==
    [r \in DOMAIN regions |->
        [region |-> regions[r],
         transport_cost |-> transport_cost[regions[r]],
         min_delivery |-> units_sold_min[CategoryOf(regions[r])],
         max_delivery |-> units_sold_max[CategoryOf(regions[r])]]]

OneHot_last(g) ==
    [j \in 1 .. Len(categories) - 1 |-> IF categories[j] = g THEN Scale ELSE 0]
\* OneHotEncoder(drop="first") on the region g: one column per category
\* but the first, in tenths.
OneHot(g) ==
    [j \in 1 .. Len(categories) - 1 |-> IF categories[j + 1] = g THEN Scale ELSE 0]
year_documented == 2022 - 1
year == 2022
peak_or_not == 1

\* The weeks of the dataset, a week by the year and the month of its date:
\* sales of the years 2015-2018 and 2019-2022.
Years == 2015 .. 2022
Dates == [year : Years, month : 1 .. 12]
\* avocado["year"] = pd.DatetimeIndex(avocado["date"]).year
avocado_year(date) == date.year
\* peak_months = range(2, 8); peak_season(row)
peak_months == 2 .. 7
peak_season(date) == IF date.month \in peak_months THEN 1 ELSE 0

price(i) == V("reg_features", i, PriceColumn)
d == [k \in 1 .. n |-> V("demand", k - 1, 0)]

\* p, x, s, w, d = gppd.add_vars(m, data, ...)
PriceCreateVars ==
    /\ At("price", "create_vars")
    /\ m_vars' =
           [v \in {price(i) : i \in Rows}
                  \cup {V(name, i, 0) : name \in {"x", "s", "w", "demand"}, i \in Rows} |->
               CASE v[1] = "reg_features" -> <<a_min * Scale, a_max * Scale, 0>>
                 [] v[1] = "x" -> <<min_delivery[v[2] + 1], max_delivery[v[2] + 1], 0>>
                 [] v[1] = "demand" -> <<-INFINITY, INFINITY, 0>>
                 [] OTHER -> <<0, INFINITY, 0>>]
    /\ pc' = pc + 1
    /\ Changed
    /\ UNCHANGED <<raised, inputs, ci, frames, m_constrs, m_genconstrs, m_obj, params,
                   out_activation, pred_constr, calls, solver, outputs>>

\* (p * s).sum() - c_waste * w.sum() - (c_transport * x).sum(), maximized:
\* linear coefficients in tenths, the coefficient of a product in units.
Objective_minimized ==
    [sense |-> "min",
     lin |-> [k \in 1 .. n |-> <<-c_transport[k], V("x", k - 1, 0)>>]
             \o [k \in 1 .. n |-> <<-c_waste, V("w", k - 1, 0)>>],
     quad |-> [k \in 1 .. n |-> <<1, V("s", k - 1, 0), price(k - 1)>>]]
Objective ==
    [sense |-> "max",
     lin |-> [k \in 1 .. n |-> <<-c_transport[k], V("x", k - 1, 0)>>]
             \o [k \in 1 .. n |-> <<-c_waste, V("w", k - 1, 0)>>],
     quad |-> [k \in 1 .. n |-> <<1, V("s", k - 1, 0), price(k - 1)>>]]

PriceSetObjective ==
    /\ At("price", "set_objective")
    /\ m_obj' = Objective
    /\ pc' = pc + 1
    /\ Changed
    /\ UNCHANGED <<raised, inputs, ci, frames, m_vars, m_constrs, m_genconstrs, params,
                   out_activation, pred_constr, calls, solver, outputs>>

\* R0: m.addConstr(x.sum() == B)
SupplyConstr ==
    [name |-> R(0),
     terms |-> [k \in 1 .. n |-> <<Scale, V("x", k - 1, 0)>>],
     sense |-> "=", rhs |-> B]

\* R1..R8: s <= x; R9..R16: s <= d
SalesLeSupply(i) ==
    [name |-> R(i),
     terms |-> << <<-Scale, V("x", i, 0)>>, <<Scale, V("s", i, 0)>> >>,
     sense |-> "<=", rhs |-> 0]
SalesLeDemand(i) ==
    [name |-> R(n + i),
     terms |-> << <<Scale, V("s", i, 0)>>, <<-Scale, V("demand", i, 0)>> >>,
     sense |-> "<=", rhs |-> 0]

Wastage_negated(i) ==
    [name |-> R(i),
     terms |-> << <<Scale, V("x", i, 0)>>, <<-Scale, V("s", i, 0)>>,
                  <<Scale, V("w", i, 0)>> >>,
     sense |-> "=", rhs |-> 0]
\* R17..R24: w = x - s
Wastage(i) ==
    [name |-> R(i),
     terms |-> << <<-Scale, V("x", i, 0)>>, <<Scale, V("s", i, 0)>>,
                  <<Scale, V("w", i, 0)>> >>,
     sense |-> "=", rhs |-> 0]

PriceSupply == AddConstrs("price", "supply", {SupplyConstr})
PriceSales ==
    AddConstrs("price", "sales",
               {SalesLeSupply(i) : i \in Rows} \cup {SalesLeDemand(i) : i \in Rows})
PriceWastage == AddConstrs("price", "wastage", {Wastage(i) : i \in Rows})

\* feats = pd.DataFrame(data={"region": regions, "price": p, "year": year,
\*                            "peak": peak_or_not}, index=regions)
PriceFeats ==
    /\ At("price", "feats")
    /\ feats' = [k \in 1 .. n |->
                    [region |-> Fixed(regions[k]),
                     price |-> VarEntry(price(k - 1)),
                     year |-> Fixed(year * Scale),
                     peak |-> Fixed(peak_or_not * Scale)]]
    /\ pc' = pc + 1
    /\ UNCHANGED <<raised, inputs, ci, studentsdata, model, params, out_activation,
                   pred_constr, calls, solver, solution, outputs>>

\* pred_constr = add_predictor_constr(m, lin_reg, feats, d)
PriceAddPredictorConstr ==
    /\ At("price", "add_predictor_constr")
    /\ Embed("add_predictor_constr", "lin_reg", feats, d, <<>>)
    /\ UNCHANGED <<inputs, ci, frames, params, out_activation, solver, outputs>>

\* solution["Price"] = p.gppd.X ... solution["Pred_demand"] = d.gppd.X
PriceSolution ==
    /\ At("price", "solution")
    /\ IF ReadsSolution # ""
       THEN raised' = ReadsSolution /\ UNCHANGED <<pc, display>>
       ELSE /\ display' = [k \in 1 .. n |->
                              [Price |-> sol[price(k - 1)],
                               Allocated |-> sol[V("x", k - 1, 0)],
                               Sold |-> sol[V("s", k - 1, 0)],
                               Wasted |-> sol[V("w", k - 1, 0)],
                               Pred_demand |-> sol[V("demand", k - 1, 0)]]]
            /\ pc' = pc + 1
            /\ UNCHANGED raised
    /\ UNCHANGED <<inputs, ci, frames, model, params, out_activation, pred_constr,
                   calls, solver, solution, stats, error, input_values>>

\* pred_constr.input_values.drop('region', axis=1)
PriceInputValues ==
    /\ At("price", "input_values")
    /\ IF ReadsSolution # ""
       THEN raised' = ReadsSolution /\ UNCHANGED <<pc, input_values, display>>
       ELSE LET values == InputValues(pred_constr, sol)
            IN  /\ input_values' = values
                /\ IF \A k \in DOMAIN values : "region" \in DOMAIN values[k]
                   THEN /\ display' =
                               [k \in DOMAIN values |->
                                   [c \in DOMAIN values[k] \ {"region"} |-> values[k][c]]]
                        /\ pc' = pc + 1
                        /\ UNCHANGED raised
                   ELSE raised' = "KeyError" /\ UNCHANGED <<pc, display>>
    /\ UNCHANGED <<inputs, ci, frames, model, params, out_activation, pred_constr,
                   calls, solver, solution, stats, error>>

(***************************************************************************)
(* Statements that read the same in every notebook.                        *)
(***************************************************************************)
\* pred_constr.print_stats()
PrintStatsStmt ==
    /\ At(nb, "print_stats")
    /\ stats' = PrintStats(pred_constr)
    /\ pc' = pc + 1
    /\ UNCHANGED <<raised, inputs, ci, frames, model, params, out_activation,
                   pred_constr, calls, solver, solution, error, input_values,
                   display>>

RECURSIVE NpMax(_)
NpMax(xs) == IF Len(xs) = 1 THEN xs[1] ELSE Max(Head(xs), NpMax(Tail(xs)))

\* print(... np.max(pred_constr.get_error()))
GetErrorStmt ==
    /\ At(nb, "get_error")
    /\ IF ReadsSolution # ""
       THEN raised' = ReadsSolution /\ UNCHANGED <<pc, error, display>>
       ELSE /\ error' = GetError(pred_constr, sol)
            /\ display' = NpMax(GetError(pred_constr, sol))
            /\ pc' = pc + 1
            /\ UNCHANGED raised
    /\ UNCHANGED <<inputs, ci, frames, model, params, out_activation, pred_constr,
                   calls, solver, solution, stats, input_values>>

\* Where the notebook stands while m.optimize() runs: the call is
\* synchronous, the notebook stays in the statement until the return.
PcInCall_async(p) == p + 1
PcInCall(p) == p

\* m.optimize(): the notebook hands m to the solver and waits.
OptimizeCall ==
    /\ At(nb, "optimize")
    /\ solver' = "running"
    /\ pc' = PcInCall(pc)
    /\ UNCHANGED <<raised, inputs, ci, frames, model, params, out_activation,
                   pred_constr, calls, solution, outputs>>

\* BestObjStop: stop at a solution whose objective is at least as good.
ObjStop(v) == "BestObjStop" \in DOMAIN params /\ AsGoodAs(v, params.BestObjStop)
\* BestBdStop: stop once no solution can be better than the value.
BdStop(best) == "BestBdStop" \in DOMAIN params /\ AsGoodAs(params.BestBdStop, best)

\* The solver returns: the status and the solution it leaves in m.
OptimizeReturn ==
    /\ solver = "running"
    /\ LET F == Feasible
       IN  IF F = {}
           THEN status' = "INFEASIBLE" /\ sol' = NoSol /\ stop' = "Infeasible"
           ELSE LET opt == Optimal(F)
                    best == ObjVal(CHOOSE a \in opt : TRUE)
                IN  \/ /\ ~ObjStop(best)
                       /\ status' = "OPTIMAL"
                       /\ sol' \in opt
                       /\ stop' = "Optimal"
                    \/ /\ status' = "USER_OBJ_LIMIT"
                       /\ sol' \in {a \in F : ObjStop(ObjVal(a))}
                       /\ stop' = "BestObjStop"
                    \/ /\ BdStop(best)
                       /\ status' = "USER_OBJ_LIMIT"
                       /\ sol' \in {a \in F : ~ObjStop(ObjVal(a))} \cup {NoSol}
                       /\ stop' = "BestBdStop"
    /\ solver' = "idle"
    /\ pc' = pc + 1
    /\ UNCHANGED <<raised, inputs, ci, frames, model, params, out_activation,
                   pred_constr, calls, outputs>>

(***************************************************************************)
(* Student enrollment.                                                     *)
(***************************************************************************)
\* The applications a run may draw: (SAT in thousands, GPA), in tenths.
Applications == {<<11, 30>>, <<13, 34>>}
\* 2.5, in tenths.
merit_ub == 25
pwl_attributes ==
    [FuncPieces |-> -1, FuncPieceLength |-> 1000, FuncPieceError |-> 1,
     FuncPieceRatio |-> -10]

y == [k \in 1 .. n |-> V("enroll_probability", k - 1, 0)]

\* y = gppd.add_vars(m, studentsdata, name='enroll_probability')
\* studentsdata = studentsdata.gppd.add_vars(m, lb=0.0, ub=2.5, name='merit')
\* studentsdata = studentsdata.loc[:, features]
EnrollCreateVars ==
    /\ At("enroll", "create_vars")
    /\ m_vars' =
           [v \in {V(name, i, 0) : name \in {"enroll_probability", "merit"}, i \in Rows} |->
               IF v[1] = "merit" THEN <<0, merit_ub, 0>> ELSE <<0, INFINITY, 0>>]
    /\ studentsdata' =
           [k \in 1 .. n |->
               [merit |-> VarEntry(V("merit", k - 1, 0)),
                SAT |-> studentsdata[k].SAT,
                GPA |-> studentsdata[k].GPA]]
    /\ pc' = pc + 1
    /\ Changed
    /\ UNCHANGED <<raised, inputs, ci, feats, m_constrs, m_genconstrs, m_obj, params,
                   out_activation, pred_constr, calls, solver, outputs>>

\* m.setObjective(y.sum(), gp.GRB.MAXIMIZE)
\* m.addConstr(x.sum() <= 0.2 * nstudents)
Budget ==
    [name |-> R(0),
     terms |-> [k \in 1 .. n |-> <<Scale, V("merit", k - 1, 0)>>],
     sense |-> "<=", rhs |-> 2 * n]

EnrollObjectiveBudget ==
    /\ At("enroll", "objective_budget")
    /\ m_obj' = [sense |-> "max", lin |-> [k \in 1 .. n |-> <<Scale, y[k]>>],
                 quad |-> <<>>]
    /\ m_constrs' = m_constrs \cup {Budget}
    /\ pc' = pc + 1
    /\ Changed
    /\ UNCHANGED <<raised, inputs, ci, frames, m_vars, m_genconstrs, params,
                   out_activation, pred_constr, calls, solver, outputs>>

\* pred_constr = add_predictor_constr(m, pipe, studentsdata, y,
\*                                    output_type="probability_1")
EnrollAddPredictorConstr ==
    /\ At("enroll", "add_predictor_constr")
    /\ Embed("add_predictor_constr", "pipe", studentsdata, y, <<>>)
    /\ UNCHANGED <<inputs, ci, frames, params, out_activation, solver, outputs>>

\* pred_constr.remove()
EnrollRemove ==
    /\ At("enroll", "remove")
    /\ m_vars' = RemoveVars(pred_constr)
    /\ m_constrs' = RemoveConstrs(pred_constr)
    /\ m_genconstrs' = RemoveGenConstrs(pred_constr)
    /\ pc' = pc + 1
    /\ Changed
    /\ UNCHANGED <<raised, inputs, ci, frames, m_obj, params, out_activation,
                   pred_constr, calls, solver, outputs>>

\* pred_constr = add_predictor_constr(m, pipe, studentsdata, y,
\*     output_type="probability_1", pwl_attributes=pwl_attributes)
EnrollAddPredictorConstrPwl ==
    /\ At("enroll", "add_predictor_constr_pwl")
    /\ Embed("add_predictor_constr", "pipe", studentsdata, y,
             [pwl_attributes |-> pwl_attributes])
    /\ UNCHANGED <<inputs, ci, frames, params, out_activation, solver, outputs>>

\* pred_constr.input_values
EnrollInputValues ==
    /\ At("enroll", "input_values")
    /\ IF ReadsSolution # ""
       THEN raised' = ReadsSolution /\ UNCHANGED <<pc, input_values>>
       ELSE /\ input_values' = InputValues(pred_constr, sol)
            /\ pc' = pc + 1
            /\ UNCHANGED raised
    /\ UNCHANGED <<inputs, ci, frames, model, params, out_activation, pred_constr,
                   calls, solver, solution, stats, error, display>>

(***************************************************************************)
(* Adversarial example.                                                    *)
(***************************************************************************)
\* The images X a run may choose its example from: a blank image and
\* the image with every third pixel white.
Examples ==
    {[j \in 1 .. NPixels |-> 0],
     [j \in 1 .. NPixels |-> IF j % NHidden = 0 THEN Scale ELSE 0]}
delta == 5

adv_x == [j \in 1 .. NPixels |-> V("x", 0, j - 1)]
adv_y == [l \in 1 .. NLabels |-> V("y", 0, l - 1)]
abs_diff(j) == V("abs_diff", 0, j)

\* sorted_labels = np.argsort(ex_prob)[0]: the labels by increasing
\* probability, equal probabilities in the order of the labels.
sorted_labels ==
    LET out == Output(example)
    IN  CHOOSE s \in [1 .. NLabels -> 0 .. NLabels - 1] :
            \A i, j \in 1 .. NLabels :
                i < j => \/ out[s[i] + 1] < out[s[j] + 1]
                         \/ out[s[i] + 1] = out[s[j] + 1] /\ s[i] < s[j]
right_label == sorted_labels[NLabels]
wrong_label_first == sorted_labels[1]
wrong_label == sorted_labels[NLabels - 1]

AdvObjective_reversed ==
    [sense |-> "max",
     lin |-> << <<Scale, adv_y[right_label + 1]>>,
                <<-Scale, adv_y[wrong_label + 1]>> >>,
     quad |-> <<>>]
\* m.setObjective(y[0, wrong_label] - y[0, right_label], gp.GRB.MAXIMIZE)
AdvObjective ==
    [sense |-> "max",
     lin |-> << <<Scale, adv_y[wrong_label + 1]>>,
                <<-Scale, adv_y[right_label + 1]>> >>,
     quad |-> <<>>]

\* x = m.addMVar(example.shape, lb=0.0, ub=1.0, name="x")
\* y = m.addMVar(ex_prob.shape, lb=-gp.GRB.INFINITY, name="y")
\* abs_diff = m.addMVar(example.shape, lb=0, ub=1, name="abs_diff")
\* m.setObjective(...)
AdvCreateVars ==
    /\ At("adversarial", "create_vars")
    /\ m_vars' =
           [v \in {V(name, 0, j) : name \in {"x", "abs_diff"}, j \in 0 .. NPixels - 1}
                  \cup {V("y", 0, l) : l \in 0 .. NLabels - 1} |->
               IF v[1] = "y" THEN <<-INFINITY, INFINITY, 0>> ELSE <<0, Scale, 0>>]
    /\ m_obj' = AdvObjective
    /\ pc' = pc + 1
    /\ Changed
    /\ UNCHANGED <<raised, inputs, ci, frames, m_constrs, m_genconstrs, params,
                   out_activation, pred_constr, calls, solver, outputs>>

\* m.addConstr(abs_diff >= x - example)
DiffUp(j) ==
    [name |-> R(j),
     terms |-> << <<Scale, abs_diff(j)>>, <<-Scale, adv_x[j + 1]>> >>,
     sense |-> ">=", rhs |-> -example[j + 1]]
\* m.addConstr(abs_diff >= -x + example)
DiffDown(j) ==
    [name |-> R(NPixels + j),
     terms |-> << <<Scale, abs_diff(j)>>, <<Scale, adv_x[j + 1]>> >>,
     sense |-> ">=", rhs |-> example[j + 1]]
Neighbourhood_unbounded ==
    [name |-> R(2 * NPixels),
     terms |-> [j \in 1 .. NPixels |-> <<Scale, abs_diff(j - 1)>>],
     sense |-> "<=", rhs |-> NPixels * Scale]
\* m.addConstr(abs_diff.sum() <= delta)
Neighbourhood ==
    [name |-> R(2 * NPixels),
     terms |-> [j \in 1 .. NPixels |-> <<Scale, abs_diff(j - 1)>>],
     sense |-> "<=", rhs |-> delta * Scale]

AdvL1Constrs ==
    AddConstrs("adversarial", "l1_constrs",
               {DiffUp(j) : j \in 0 .. NPixels - 1}
                   \cup {DiffDown(j) : j \in 0 .. NPixels - 1}
                   \cup {Neighbourhood})

\* nn.out_activation_ = "identity" and, after the call, = "softmax"
AdvSetActivation(stmt, activation) ==
    /\ At("adversarial", stmt)
    /\ out_activation' = activation
    /\ pc' = pc + 1
    /\ UNCHANGED <<raised, inputs, ci, frames, model, params, pred_constr, calls,
                   solver, solution, outputs>>

AdvSetIdentity == AdvSetActivation("set_identity", "identity")
AdvRestore == AdvSetActivation("restore", "softmax")

\* pred_constr = add_mlp_regressor_constr(m, nn, x, y), or the call of
\* add_predictor_constr the notebook advises against.
AdvEmbed ==
    /\ At("adversarial", "embed")
    /\ Embed(embed, "nn", adv_x, adv_y, <<>>)
    /\ UNCHANGED <<inputs, ci, frames, params, out_activation, solver, outputs>>

\* m.Params.BestBdStop = 0.0; m.Params.BestObjStop = 0.0
AdvSetParams ==
    /\ At("adversarial", "set_params")
    /\ params' = [BestBdStop |-> 0, BestObjStop |-> 0]
    /\ pc' = pc + 1
    /\ UNCHANGED <<raised, inputs, ci, frames, model, out_activation, pred_constr,
                   calls, solver, solution, outputs>>

\* x.X and nn.predict(x.X): the solution's image and its label.
AdvResult ==
    /\ At("adversarial", "result")
    /\ IF ReadsSolution # ""
       THEN raised' = ReadsSolution /\ UNCHANGED <<pc, display>>
       ELSE LET X == [j \in 1 .. NPixels |-> sol[adv_x[j]]]
            IN  /\ display' = [x |-> X, label |-> Predicted(X)]
                /\ pc' = pc + 1
                /\ UNCHANGED raised
    /\ UNCHANGED <<inputs, ci, frames, model, params, out_activation, pred_constr,
                   calls, solver, solution, stats, error, input_values>>

(***************************************************************************)
(* tox.ini.  A tox environment is the sequence of its factors:             *)
(* py39-keras is <<"py39", "keras">>, docs is <<"docs">>.                  *)
(***************************************************************************)
Factors(e) == {e[k] : k \in DOMAIN e}
Generate(ps, ss) ==
    Concat([i \in DOMAIN ps |-> [j \in DOMAIN ss |-> <<ps[i], ss[j]>>]])

pythons == <<"py39", "py310", "py311">>
suites == <<"keras", "pytorch", "sklearn", "xgboost", "no_deps", "all_deps">>

\* [tox] envlist =
\*   {py39,py310,py311}-{keras,...,all_deps},pre-commit,docs,examples
envlist ==
    Generate(pythons, suites) \o << <<"pre-commit">>, <<"docs">>, <<"examples">> >>

\* [gh-actions] python =
gh_actions_without_docs ==
    "3.9" :> (<< <<"pre-commit">> >> \o Generate(<<"py39">>, suites)) @@
    "3.10" :> Generate(<<"py310">>, suites) @@
    "3.11" :> Generate(<<"py311">>, suites)
gh_actions ==
    "3.9" :> (<< <<"pre-commit">> >> \o Generate(<<"py39">>, suites)) @@
    "3.10" :> Generate(<<"py310">>, suites) @@
    "3.11" :> (<< <<"docs">> >> \o Generate(<<"py311">>, suites))

\* tox run by a job of Python `version` without -e: tox-gh-actions keeps
\* the environments of envlist that have the factors of an entry the
\* [gh-actions] section lists for the version.
GhEnvs(version) ==
    SelectSeq(envlist,
              LAMBDA e : \E k \in DOMAIN gh_actions[version] :
                             Factors(gh_actions[version][k]) \subseteq Factors(e))

\* [testenv] passenv =
passenv == {"GRB_LICENSE_FILE"}

\* [testenv:coverage] depends = : each line holds for the environments
\* that have one of its factors.
depends_coverage ==
    << [factors |-> {"py39", "py310", "py311"}, envs |-> {<<"clean">>}],
       [factors |-> {"report"},
        envs |-> {<<"py39">>, <<"py310">>, <<"py311">>}] >>

\* The environments e depends on: the depends of the section that
\* configures e.  Only [testenv:coverage] has one.
Depends(e) ==
    IF e = <<"coverage">>
    THEN UNION {depends_coverage[k].envs :
                    k \in {i \in DOMAIN depends_coverage :
                               depends_coverage[i].factors \cap Factors(e) # {}}}
    ELSE {}

\* The environments of a coverage run: clean, the test environments, the
\* environment that appends the coverage data, report.
coverage_run ==
    << <<"clean">>, <<"py39">>, <<"py310">>, <<"py311">>, <<"coverage">>,
       <<"report">> >>

\* The orders in which tox may run the environments of list: every
\* environment after those it depends on; without -p, in the order of the
\* list as far as the depends allow.
Consistent(o) ==
    \A i, j \in DOMAIN o : o[j] \in Depends(o[i]) => j < i
Orders(list) ==
    {o \in [DOMAIN list -> Factors(list)] :
        /\ \A i, j \in DOMAIN o : i # j => o[i] # o[j]
        /\ Consistent(o)}
ToxOrders(list, p) ==
    IF ~p /\ Consistent(list) THEN {list} ELSE Orders(list)

\* The commands of the coverage environments on the data file of coverage
\* and on the report: [testenv:clean] coverage erase, [testenv:coverage]
\* pytest --cov-append, [testenv:report] coverage report.
RECURSIVE Coverage(_, _, _)
Coverage(order, cdata, rep) ==
    IF order = <<>> THEN [data |-> cdata, reported |-> rep]
    ELSE LET e == Head(order)
         IN  CASE e = <<"clean">> -> Coverage(Tail(order), {}, rep)
               [] e = <<"coverage">> ->
                      Coverage(Tail(order), cdata \cup {"coverage"}, rep)
               [] e = <<"report">> -> Coverage(Tail(order), cdata, cdata)
               [] OTHER -> Coverage(Tail(order), cdata, rep)

\* What tox records of the environments it runs, as invocation k, with
\* the environment variables env of the caller.
ToxRun(envs, k, env) ==
    [i \in DOMAIN envs |->
        [env |-> envs[i],
         invocation |-> k,
         GRB_LICENSE_FILE |->
             IF "GRB_LICENSE_FILE" \in passenv THEN env.GRB_LICENSE_FILE ELSE "",
         ok |-> envs[i] \notin failing]]
ToxFailed(run) == \E i \in DOMAIN run : ~run[i].ok

\* tox -p -e clean,py39,py310,py311,coverage,report, or the same without
\* -p.
CoverageTox ==
    /\ At("coverage", "tox")
    /\ \E o \in ToxOrders(coverage_run, parallel) :
           LET run == ToxRun(o, 1, [GRB_LICENSE_FILE |-> ""])
               c == Coverage(o, coverage_data, reported)
           IN  /\ ran' = ran \o run
               /\ coverage_data' = c.data
               /\ reported' = c.reported
               /\ IF ToxFailed(run)
                  THEN raised' = "tox" /\ UNCHANGED pc
                  ELSE pc' = pc + 1 /\ UNCHANGED raised
    /\ UNCHANGED <<inputs, flake8_runs, files, github_output, frames, model,
                   params, out_activation, pred_constr, calls, solver, solution,
                   outputs>>

(***************************************************************************)
(* The workflow "build and test": one job per Python version of the        *)
(* matrix, its steps in the order of the file.  A step that fails ends     *)
(* the job: no step has an if: or continue-on-error.                       *)
(***************************************************************************)
\* on: push: branches:
on_push_branches == <<"main", "[0-9]+.[0-9]+.x", "multinomial_logistic">>
Branches == {"main", "1.2.x", "dev"}
Matches(pattern, b) ==
    \/ pattern = b
    \/ pattern = "[0-9]+.[0-9]+.x" /\ b \in {"1.2.x"}
Watched(b) == \E k \in DOMAIN on_push_branches : Matches(on_push_branches[k], b)

\* strategy: matrix: python-version:
matrix == <<"3.9", "3.10", "3.11">>

\* A step without an effect on the state kept here: it fails or goes on.
CiStep(stmt) ==
    /\ At("ci", stmt)
    /\ IF <<stmt>> \in failing
       THEN raised' = stmt /\ UNCHANGED pc
       ELSE pc' = pc + 1 /\ UNCHANGED raised
    /\ UNCHANGED <<inputs, ci, frames, model, params, out_activation,
                   pred_constr, calls, solver, solution, outputs>>

\* uses: actions/checkout@v3, the first step of a job the push started.
CiCheckout == Watched(branch) /\ CiStep("checkout")
\* uses: actions/setup-python@v4
CiSetupPython == CiStep("setup_python")
\* pip install flake8 pytest tox tox-gh-actions
CiInstallDependencies == CiStep("install_dependencies")
\* sudo apt-get update && sudo apt-get install -y pandoc
CiInstallPandoc == CiStep("install_pandoc")

\* The flake8 codes: E999 a syntax error, F821 an undefined name, E501 a
\* line longer than 127, C901 a complexity above 10.  The classes a code
\* belongs to are its prefixes.
Codes == {"E999", "F821", "E501", "C901"}
Prefixes(code) ==
    CASE code = "E999" -> {"E", "E9", "E99", "E999"}
      [] code = "F821" -> {"F", "F8", "F82", "F821"}
      [] code = "E501" -> {"E", "E5", "E50", "E501"}
      [] code = "C901" -> {"C", "C9", "C90", "C901"}

\* --select=E9,F63,F7,F82, and the selection of flake8 without --select.
lint_select == {"E9", "F63", "F7", "F82"}
default_select == {"E", "F", "W", "C90"}

\* flake8 . --count --select=... [--exit-zero]: what it reports and its
\* exit status.
Flake8(select, exit_zero) ==
    LET found == {f \in findings : Prefixes(f) \cap select # {}}
    IN  [select |-> select, found |-> found,
         exit |-> IF exit_zero \/ found = {} THEN 0 ELSE 1]

\* name: Lint with flake8:
\*   flake8 . --count --select=E9,F63,F7,F82 --show-source --statistics
\*   flake8 . --count --exit-zero --max-complexity=10 --max-line-length=127
lint_commands_strict ==
    << [select |-> lint_select, exit_zero |-> FALSE],
       [select |-> default_select, exit_zero |-> FALSE] >>
lint_commands ==
    << [select |-> lint_select, exit_zero |-> FALSE],
       [select |-> default_select, exit_zero |-> TRUE] >>

\* The two commands of the step, the shell stopping at the first that
\* exits with a status other than 0.
CiLint ==
    /\ At("ci", "lint")
    /\ LET first == Flake8(lint_commands[1].select, lint_commands[1].exit_zero)
           second == Flake8(lint_commands[2].select, lint_commands[2].exit_zero)
       IN  IF first.exit # 0
           THEN /\ flake8_runs' = <<first>>
                /\ raised' = "lint"
                /\ UNCHANGED pc
           ELSE /\ flake8_runs' = <<first, second>>
                /\ IF second.exit # 0
                   THEN raised' = "lint" /\ UNCHANGED pc
                   ELSE pc' = pc + 1 /\ UNCHANGED raised
    /\ UNCHANGED <<inputs, ran, files, github_output, coverage_data, reported,
                   frames, model, params, out_activation, pred_constr, calls,
                   solver, solution, outputs>>

\* id: write-license:
\*   echo "$LICENSE" > $PWD/gurobi.lic
\*   echo "grb_license_file=$PWD/gurobi.lic" >> $GITHUB_OUTPUT
license_file == "gurobi.lic"
CiWriteLicense ==
    /\ At("ci", "write_license")
    /\ files' = files \cup {license_file}
    /\ github_output' = ("grb_license_file" :> license_file) @@ github_output
    /\ pc' = pc + 1
    /\ UNCHANGED <<raised, inputs, ran, flake8_runs, coverage_data, reported,
                   frames, model, params, out_activation, pred_constr, calls,
                   solver, solution, outputs>>

\* env: GRB_LICENSE_FILE: ${{ steps.write-license.outputs.grb_license_file }}
\* An output that was not written is the empty string.
license_output_misspelt == "grb_licence_file"
license_output == "grb_license_file"
StepOutput(name) ==
    IF name \in DOMAIN github_output THEN github_output[name] ELSE ""

\* name: Test with tox: tox, then tox -e examples, the shell stopping at
\* the first that fails.  tox runs every environment it selected and fails
\* when one of them failed.
CiTestWithTox ==
    /\ At("ci", "test_with_tox")
    /\ LET env == [GRB_LICENSE_FILE |-> StepOutput(license_output)]
           tox == ToxRun(GhEnvs(python_version), 1, env)
           examples == ToxRun(<< <<"examples">> >>, 2, env)
       IN  IF ToxFailed(tox)
           THEN /\ ran' = ran \o tox
                /\ raised' = "test_with_tox"
                /\ UNCHANGED pc
           ELSE /\ ran' = ran \o tox \o examples
                /\ IF ToxFailed(examples)
                   THEN raised' = "test_with_tox" /\ UNCHANGED pc
                   ELSE pc' = pc + 1 /\ UNCHANGED raised
    /\ UNCHANGED <<inputs, flake8_runs, files, github_output, coverage_data,
                   reported, frames, model, params, out_activation, pred_constr,
                   calls, solver, solution, outputs>>

\* What a run may find failing: nothing, a step, or a tox environment.
FailingSets ==
    {{}, {<<"install_pandoc">>}, {<<"py310", "sklearn">>}, {<<"docs">>},
     {<<"examples">>}}

(***************************************************************************)
(* The runs.                                                               *)
(***************************************************************************)
\* m = gp.Model(): an empty model, and the data the notebook loaded.
Init ==
    /\ nb \in {"price", "enroll", "adversarial", "ci", "coverage"}
    /\ pc = 1
    /\ raised = ""
    /\ n \in CASE nb = "price" -> 1 .. MaxRegions
               [] nb = "enroll" -> 1 .. MaxStudents
               [] OTHER -> {1}
    /\ B \in IF nb = "price" THEN BSet ELSE {0}
    /\ example \in IF nb = "adversarial" THEN Examples ELSE {<<>>}
    /\ embed \in IF nb = "adversarial"
                 THEN {"add_mlp_regressor_constr", "add_predictor_constr"}
                 ELSE {""}
    /\ nn \in IF nb = "adversarial"
             THEN Networks
             ELSE {Network(<<0, 0, 0>>, <<0, 0, 0>>)}
    /\ studentsdata \in
           IF nb = "enroll"
           THEN {[k \in 1 .. n |-> [SAT |-> Fixed(f[k][1]), GPA |-> Fixed(f[k][2])]] :
                     f \in [1 .. n -> Applications]}
           ELSE {<<>>}
    /\ feats = <<>>
    /\ m_vars = <<>>
    /\ m_constrs = {}
    /\ m_genconstrs = {}
    /\ m_obj = NoObj
    /\ params = <<>>
    /\ out_activation = "softmax"
    /\ pred_constr = NoPred
    /\ calls = <<>>
    /\ solver = "idle"
    /\ status = "LOADED"
    /\ sol = NoSol
    /\ stop = ""
    /\ stats = NoStats
    /\ error = <<>>
    /\ input_values = <<>>
    /\ display = <<>>
    /\ python_version \in IF nb = "ci" THEN Factors(matrix) ELSE {""}
    /\ branch \in IF nb = "ci" THEN Branches ELSE {""}
    /\ findings \in IF nb = "ci" THEN SUBSET Codes ELSE {{}}
    /\ failing \in IF nb = "ci" THEN FailingSets
                   ELSE IF nb = "coverage" THEN {{}, {<<"py310">>}}
                   ELSE {{}}
    /\ parallel \in IF nb = "coverage" THEN BOOLEAN ELSE {FALSE}
    /\ ran = <<>>
    /\ flake8_runs = <<>>
    /\ files = {}
    /\ github_output = <<>>
    /\ coverage_data \in IF nb = "coverage" THEN {{}, {"stale"}} ELSE {{}}
    /\ reported = {}

Next ==
    \/ PriceCreateVars
    \/ PriceSetObjective
    \/ PriceSupply
    \/ PriceSales
    \/ PriceWastage
    \/ PriceFeats
    \/ PriceAddPredictorConstr
    \/ PriceSolution
    \/ PriceInputValues
    \/ EnrollCreateVars
    \/ EnrollObjectiveBudget
    \/ EnrollAddPredictorConstr
    \/ EnrollRemove
    \/ EnrollAddPredictorConstrPwl
    \/ EnrollInputValues
    \/ AdvCreateVars
    \/ AdvL1Constrs
    \/ AdvSetIdentity
    \/ AdvEmbed
    \/ AdvRestore
    \/ AdvSetParams
    \/ AdvResult
    \/ PrintStatsStmt
    \/ GetErrorStmt
    \/ OptimizeCall
    \/ OptimizeReturn
    \/ CiCheckout
    \/ CiSetupPython
    \/ CiInstallDependencies
    \/ CiInstallPandoc
    \/ CiLint
    \/ CiWriteLicense
    \/ CiTestWithTox
    \/ CoverageTox

Spec == Init /\ [][Next]_vars

(***************************************************************************)
(* Properties.                                                             *)
(***************************************************************************)
LinOf(p, cs) == {c \in cs : c.name \in p.constrs}
GenOf(p, gs) == {g \in gs : g.name \in p.genconstrs}
RowInputs(p, i) ==
    [j \in 1 .. NFeatures(p.predictor) |-> InputVar(p.predictor, p.input, i, j - 1)]
Coefs(c) == [k \in DOMAIN c.terms |-> c.terms[k][1]]
Range(f) == {f[k] : k \in DOMAIN f}

\* The prediction constraints of p among cs and gs that link row i: its
\* inputs in the order of the columns, and its output.
LinOfRow(p, cs, i) ==
    {c \in LinOf(p, cs) :
        /\ [k \in 1 .. Len(c.terms) - 1 |-> c.terms[k][2]] = RowInputs(p, i)
        /\ c.terms[Len(c.terms)][2] = p.output[i + 1]}
GenOfRow(p, gs, i) ==
    {g \in GenOf(p, gs) :
        /\ [k \in DOMAIN g.terms |-> g.terms[k][2]] = RowInputs(p, i)
        /\ g.y = p.output[i + 1]}

OnePerRow(p, cs, gs) ==
    /\ Len(p.input) = n
    /\ Len(p.output) = n
    /\ Cardinality(LinOf(p, cs)) + Cardinality(GenOf(p, gs)) = n
    /\ \A i \in 0 .. n - 1 :
           Cardinality(LinOfRow(p, cs, i)) + Cardinality(GenOfRow(p, gs, i)) = 1
    /\ \A c1, c2 \in LinOf(p, cs) :
           Coefs(c1) = Coefs(c2) /\ c1.rhs = c2.rhs /\ c1.sense = c2.sense
    /\ \A g1, g2 \in GenOf(p, gs) :
           /\ Coefs(g1) = Coefs(g2)
           /\ g1.const = g2.const
           /\ g1.type = g2.type
           /\ g1.attrs = g2.attrs

\* The 8 rows of the exported model: linreg[i,0] links reg_features[i,.]
\* and demand[i], with the coefficients and the right-hand side of row 0.
ExportedRows ==
    \A i \in 0 .. 7 :
        /\ VarsOf(linreg(i))
               = {V("reg_features", i, j) : j \in 0 .. NColumns - 1}
                     \cup {V("demand", i, 0)}
        /\ Coefs(linreg(i)) = Coefs(linreg(0))
        /\ linreg(i).rhs = linreg(0).rhs

\* C1: a call of add_predictor_constr on an input of n rows and an output
\* of n entries adds exactly one prediction constraint per row; the
\* constraint of row i is over the inputs of row i and the output of row i
\* only, and all rows carry the same coefficients and intercept.  The same
\* holds of the 8 rows of the exported price model.
C1_OneConstraintPerRow ==
    [][(Len(calls') > Len(calls) /\ nb \in {"price", "enroll"})
           => (OnePerRow(pred_constr', m_constrs', m_genconstrs') /\ ExportedRows)]_vars

C1_Witness ==
    /\ nb = "price"
    /\ n >= 2
    /\ pred_constr.id = 1
    /\ Cardinality(LinOf(pred_constr, m_constrs)) = n
    /\ \A i \in Rows : linreg(i) \in m_constrs

\* The constant entries of the input of p: <<row, column of the input>>.
FixedCells(p) ==
    {ij \in (0 .. Len(p.input) - 1) \X (0 .. NFeatures(p.predictor) - 1) :
         p.input[ij[1] + 1][FeatureColumn(p.predictor, ij[2])].kind = "fixed"}
VarCells(p) ==
    ((0 .. Len(p.input) - 1) \X (0 .. NFeatures(p.predictor) - 1)) \ FixedCells(p)
Cell(p, ij) == InputVar(p.predictor, p.input, ij[1], ij[2])
\* The columns that reach the regression as they are in the data frame.
Passthrough(p) == IF p.predictor = "lin_reg" THEN {"peak"} ELSE {"SAT", "GPA"}

\* p is embedded in m: what its call created has not been removed.
Embedded(p) ==
    /\ p.id > 0
    /\ p.predictor \in {"lin_reg", "pipe"}
    /\ p.id \in DOMAIN calls
    /\ ~(nb = "enroll" /\ pc \in DOMAIN Program(nb)
           /\ Program(nb)[pc] = "add_predictor_constr_pwl")

C4_GetErrorIsTheGap ==
    [][(At(nb, "get_error") /\ pc' = pc + 1)
           => /\ sol # NoSol
              /\ Len(error') = Len(pred_constr.input)
              /\ Len(error') = n
              /\ \A k \in 1 .. n :
                     /\ error'[k] >= 0
                     /\ \/ Predict(pred_constr, k - 1, sol)
                               = sol[pred_constr.output[k]] + error'[k]
                        \/ Predict(pred_constr, k - 1, sol)
                               = sol[pred_constr.output[k]] - error'[k]
              /\ \E k \in 1 .. n : display' = error'[k]
              /\ \A k \in 1 .. n : display' >= error'[k]]_vars

C4_Witness ==
    /\ nb = "enroll"
    /\ n >= 2
    /\ Len(error) = n
    /\ \E k \in 1 .. n : error[k] > 0
    /\ display \in Range(error)

\* C5: once remove() and a second add_predictor_constr have run, m holds
\* the notebook's own variables and constraints and those of the second
\* call only: every constraint on an output is of the second call, one per
\* row, no variable of the first call is left, and optimize solves m anew.
C5_RemoveThenAddAgain ==
    (Len(calls) = 2 /\ pred_constr.id = 2) =>
        /\ \A g \in m_genconstrs : g.call = 2 /\ g.name \in pred_constr.genconstrs
        /\ Cardinality(m_genconstrs) = n
        /\ \A k \in 1 .. n :
               Cardinality({g \in m_genconstrs : g.y = pred_constr.output[k]}) = 1
        /\ \A v \in DOMAIN m_vars : m_vars[v][3] \in {0, 2}
        /\ {v \in DOMAIN m_vars : m_vars[v][3] = 2} = pred_constr.vars
        /\ \A c \in m_constrs : c.name[1] = "R" \/ c.name \in pred_constr.constrs
        /\ status # "LOADED" => status = "OPTIMAL" /\ sol # NoSol

C5_Witness ==
    /\ Len(calls) = 2
    /\ pred_constr.id = 2
    /\ status = "OPTIMAL"
    /\ n >= 2
    /\ \A k \in 1 .. n : sol[pred_constr.output[k]] > 0

\* C6: print_stats shows the numbers of variables, constraints and general
\* constraints by which the call that created the predictor constraint
\* enlarged m, whatever m held before that call and received after it.
C6_PrintStatsOfTheCall ==
    stats # NoStats =>
        /\ stats.id \in DOMAIN calls
        /\ LET c == calls[stats.id]
           IN  /\ stats.vars = c.after[1] - c.before[1]
               /\ stats.constrs = c.after[2] - c.before[2]
               /\ stats.genconstrs = c.after[3] - c.before[3]

C6_Witness ==
    /\ stats # NoStats
    /\ calls[stats.id].before[1] > 0
    /\ stats.vars < Cardinality(DOMAIN m_vars)
    /\ stats.vars > 0
    /\ stats.constrs + stats.genconstrs > 0
    /\ stats.constrs < Cardinality(m_constrs)

\* C7: input_values has the rows and the columns of the input given to
\* add_predictor_constr, the region column included; a constant entry is
\* the input's entry and the entry of a decision variable is a value, the
\* variable's value in the solution.
C7_InputValuesFrame ==
    input_values # <<>> =>
        /\ sol # NoSol
        /\ Len(input_values) = Len(pred_constr.input)
        /\ \A k \in DOMAIN input_values :
               /\ DOMAIN input_values[k] = DOMAIN pred_constr.input[k]
               /\ \A c \in DOMAIN pred_constr.input[k] :
                      LET e == pred_constr.input[k][c]
                      IN  IF e.kind = "fixed" THEN input_values[k][c] = e
                          ELSE /\ input_values[k][c].kind = "fixed"
                               /\ input_values[k][c].val = sol[e.var]

C7_Witness ==
    /\ nb = "price"
    /\ n >= 2
    /\ Len(input_values) = n
    /\ input_values[2].region.val = "Midsouth"
    /\ input_values[2].price.val = sol[price(1)]
    /\ input_values[2].price.val > 0
    /\ "region" \notin DOMAIN display[2]

\* The statements of the notebook before statement stmt have run.
Before(stmt) == \A k \in 1 .. pc - 1 : k \in DOMAIN Program(nb) => Program(nb)[k] # stmt

C10_SalesAreMinSupplyDemand ==
    (nb = "price" /\ status = "OPTIMAL") =>
        \A r \in Rows :
            sol[V("s", r, 0)] = Min(sol[V("x", r, 0)], sol[V("demand", r, 0)])

C10_Witness ==
    /\ nb = "price"
    /\ status = "OPTIMAL"
    /\ n >= 2
    /\ \E r \in Rows : sol[V("demand", r, 0)] < sol[V("x", r, 0)]
    /\ \E r \in Rows : sol[V("demand", r, 0)] >= sol[V("x", r, 0)]
    /\ \A r \in Rows :
           sol[V("s", r, 0)] = Min(sol[V("x", r, 0)], sol[V("demand", r, 0)])

(***************************************************************************)
(* The adversarial model's feasible set.                                   *)
(***************************************************************************)
\* The image that the assignment a gives to x.
XOf(a) == [j \in 1 .. NPixels |-> a[adv_x[j]]]

\* || xs - ys ||_1
RECURSIVE Norm1(_, _)
Norm1(xs, ys) ==
    IF xs = <<>> THEN 0
    ELSE Abs(Head(xs) - Head(ys)) + Norm1(Tail(xs), Tail(ys))

InBox(xs) == \A j \in 1 .. NPixels : 0 <= xs[j] /\ xs[j] <= Scale
InNeighbourhood(xs) == InBox(xs) /\ Norm1(xs, example) <= delta * Scale

\* The images the solver's sample holds.
SampledImages == [1 .. NPixels -> {k \in Grid(adv_x[1]) : k <= Scale}]

\* The adversarial model is complete (variables, l1-norm constraints,
\* embedded network) and handed to the solver.
AdvSolving == nb = "adversarial" /\ solver = "running"

\* C11: the images x of the feasible solutions of the adversarial model
\* are exactly the neighbourhood of the example: every feasible solution
\* has x in the box [0, 1] with || x - example ||_1 <= delta, and every
\* such x is the x of a feasible solution.
C11_FeasibleInputsAreTheNeighbourhood ==
    AdvSolving =>
        LET F == {XOf(a) : a \in Feasible}
        IN  /\ \A xs \in F : InNeighbourhood(xs)
            /\ \A xs \in SampledImages : InNeighbourhood(xs) => xs \in F

C11_Witness ==
    /\ AdvSolving
    /\ \E xs \in SampledImages : InBox(xs) /\ ~InNeighbourhood(xs)
    /\ \E a \in Feasible :
           /\ Norm1(XOf(a), example) = delta * Scale
           /\ \E j \in 1 .. NPixels : a[abs_diff(j - 1)] # 0
           /\ \E j \in 1 .. NPixels : example[j] # 0 /\ a[adv_x[j]] = 0

\* The image xs is a counter-example: nn gives it another label than the
\* label of the example.
CounterExample(xs) == Predicted(xs) # right_label

\* C12: a feasible solution of the adversarial model whose objective
\* y_w - y_l is positive has a counter-example as its x: nn classifies
\* it with a label different from l; so does the image the notebook
\* displays when the solution it reads has a positive objective.
C12_PositiveDifferenceIsCounterExample ==
    /\ AdvSolving =>
           \A a \in Feasible : ObjVal(a) > 0 => CounterExample(XOf(a))
    /\ (nb = "adversarial" /\ display # <<>> /\ ObjVal(sol) > 0) =>
           display.label # right_label

C12_Witness ==
    /\ nb = "adversarial"
    /\ display # <<>>
    /\ ObjVal(sol) > 0
    /\ display.label = wrong_label
    /\ display.x # example

\* C13: if the objective y_w - y_l, w the chosen wrong label, is positive
\* on no feasible solution of the adversarial model, then no image of the
\* neighbourhood of the example is a counter-example: nn gives every one
\* of them the label l of the example.
C13_NoCounterExampleExists ==
    AdvSolving =>
        ((\A a \in Feasible : ObjVal(a) <= 0)
            => \A xs \in SampledImages :
                   InNeighbourhood(xs) => ~CounterExample(xs))

\* C14: with BestObjStop = 0.0 and BestBdStop = 0.0 the reason the solver
\* stops for answers the question: when BestObjStop stops the run the
\* solution in m is a counter-example with y_w - y_l > 0, and when
\* BestBdStop stops it the neighbourhood holds no counter-example.
C14_StopReasonAnswers ==
    nb = "adversarial" =>
        /\ stop = "BestObjStop" =>
               /\ sol # NoSol
               /\ ObjVal(sol) > 0
               /\ CounterExample(XOf(sol))
        /\ stop = "BestBdStop" =>
               \A xs \in SampledImages :
                   InNeighbourhood(xs) => ~CounterExample(xs)

(***************************************************************************)
(* The order of the regions in the price model.                            *)
(***************************************************************************)
\* The row of the variable v.
RowOf(v) == v[2]

\* The coefficient of the variable v in the linear part of the objective.
ObjCoef(v) ==
    LET ks == {k \in DOMAIN m_obj.lin : m_obj.lin[k][2] = v}
    IN  IF ks = {} THEN 0 ELSE m_obj.lin[CHOOSE k \in ks : TRUE][1]

\* The exported model and the notebook's data agree on the region of
\* every position: transport cost, delivery bounds and encoded region.
PositionsAgree ==
    \A r \in DOMAIN regions :
        /\ c_transport[r] = transport_cost[regions[r]]
        /\ data[r].region = regions[r]
        /\ min_delivery[r] = data[r].min_delivery
        /\ max_delivery[r] = data[r].max_delivery
        /\ \A j \in 1 .. Len(categories) - 1 :
               reg_features_fixed[r][j] = OneHot(regions[r])[j]

YearIndex(yr) == Cardinality({z \in Years : z < yr})

\* The column of reg_features that holds the year.
YearColumn == CHOOSE j \in 0 .. NColumns - 1 : FeatureColumn("lin_reg", j) = "year"

\* C16: the year feature of the regression is the index 0..7 of the year
\* among 2015..2022: in the column "year" of the training data, in the
\* column "year" of feats, and in the fixed year variable of every row of
\* the optimization model (7 for 2022).
C16_YearFeatureIsTheIndex ==
    nb = "price" =>
        /\ \A date \in Dates : avocado_year(date) = YearIndex(date.year)
        /\ \A k \in DOMAIN feats : feats[k].year.val = YearIndex(year) * Scale
        /\ Embedded(pred_constr) =>
               \A r \in Rows :
                   /\ m_vars[V("reg_features", r, YearColumn)][1]
                          = YearIndex(year) * Scale
                   /\ m_vars[V("reg_features", r, YearColumn)][2]
                          = YearIndex(year) * Scale

\* The column of reg_features that holds the peak season.
PeakColumn == CHOOSE j \in 0 .. NColumns - 1 : FeatureColumn("lin_reg", j) = "peak"

\* Every row of feats, and of the regression's input in m once it is
\* embedded, is a week of the peak season of the year yr.
PeakSeasonOf(yr) ==
    /\ \A k \in DOMAIN feats :
           /\ feats[k].peak.kind = "fixed"
           /\ feats[k].year.kind = "fixed"
           /\ \A date \in Dates :
                  date.month \in peak_months
                      => feats[k].peak.val = peak_season(date) * Scale
           /\ feats[k].year.val \in {yr * Scale, YearIndex(yr) * Scale}
    /\ Embedded(pred_constr) =>
           \A r \in Rows :
               /\ m_vars[V("reg_features", r, PeakColumn)][1] = Scale
               /\ m_vars[V("reg_features", r, PeakColumn)][2] = Scale
               /\ m_vars[V("reg_features", r, YearColumn)][1]
                      \in {yr * Scale, YearIndex(yr) * Scale}
               /\ m_vars[V("reg_features", r, YearColumn)][2]
                      = m_vars[V("reg_features", r, YearColumn)][1]

Unnamed(c) == [terms |-> Range(c.terms), sense |-> c.sense, rhs |-> c.rhs]
UnnamedObj(obj) == [sense |-> obj.sense, lin |-> Range(obj.lin), quad |-> Range(obj.quad)]

\* The documented constraints for N regions and the supply b:
\* sum_r x_r = b, s_r <= x_r, s_r <= d_r, w_r = x_r - s_r.
Documented(N, b) ==
    {[terms |-> {<<Scale, V("x", r, 0)>> : r \in 0 .. N - 1}, sense |-> "=", rhs |-> b]}
        \cup {[terms |-> {<<Scale, V("s", r, 0)>>, <<-Scale, V("x", r, 0)>>},
                sense |-> "<=", rhs |-> 0] : r \in 0 .. N - 1}
        \cup {[terms |-> {<<Scale, V("s", r, 0)>>, <<-Scale, V("demand", r, 0)>>},
                sense |-> "<=", rhs |-> 0] : r \in 0 .. N - 1}
        \cup {[terms |-> {<<Scale, V("w", r, 0)>>, <<-Scale, V("x", r, 0)>>,
                          <<Scale, V("s", r, 0)>>},
                sense |-> "=", rhs |-> 0] : r \in 0 .. N - 1}

\* The documented objective for N regions:
\* maximise sum_r (p_r * s_r - c_waste * w_r - c_transport_r * x_r).
DocumentedObjective(N) ==
    [sense |-> "max",
     lin |-> {<<-transport_cost[regions[r + 1]], V("x", r, 0)>> : r \in 0 .. N - 1}
                 \cup {<<-c_waste, V("w", r, 0)>> : r \in 0 .. N - 1},
     quad |-> {<<1, V("s", r, 0), price(r)>> : r \in 0 .. N - 1}]

\* c is a demand-regression equality of region r.
IsRegression(c, r) ==
    /\ c.sense = "="
    /\ VarsOf(c) = {V("reg_features", r, j) : j \in 0 .. NColumns - 1}
                       \cup {V("demand", r, 0)}
    /\ CoefOf(c, V("demand", r, 0)) # 0
    /\ CoefOf(c, price(r)) # 0

\* The constraints cs and the objective obj are the documented formulation
\* for N regions and the supply b, and nothing else.
IsFormulation(cs, obj, N, b) ==
    LET reg == {c \in cs : \E r \in 0 .. N - 1 : IsRegression(c, r)}
    IN  /\ {Unnamed(c) : c \in cs \ reg} = Documented(N, b)
        /\ Cardinality(cs \ reg) = 1 + 3 * N
        /\ Cardinality(reg) = N
        /\ \A r \in 0 .. N - 1 : \E c \in reg : IsRegression(c, r)
        /\ Cardinality({c.name : c \in cs}) = Cardinality(cs)
        /\ UnnamedObj(obj) = DocumentedObjective(N)

\* C18: the model the price notebook builds is the documented formulation
\* for its regions and its supply (objective, supply constraint, the two
\* sales constraints and the wastage constraint of every region, one
\* demand-regression equality per region) and nothing else, and so is the
\* exported model for 8 regions: 33 constraints (1 + 8 + 8 + 8 + 8), with
\* c_waste = 0.1, B = 30 and the transport costs of the notebook.
C18_DocumentedFormulation ==
    (nb = "price" /\ Embedded(pred_constr)) =>
        /\ IsFormulation(m_constrs, m_obj, n, B)
        /\ m_genconstrs = {}
        /\ IsFormulation(lp_constrs, lp_objective, Len(regions), 30 * Scale)
        /\ Cardinality(lp_constrs) = 33
        /\ c_waste = 1

C18_Witness ==
    /\ nb = "price"
    /\ Embedded(pred_constr)
    /\ n = MaxRegions
    /\ Cardinality(m_constrs) = 1 + 4 * n
    /\ status = "OPTIMAL"
    /\ \E r \in Rows : sol[V("w", r, 0)] > 0

\* C19: pred_constr.remove() removes exactly what the call of
\* add_predictor_constr that created pred_constr added: after the step m
\* is as it was before that call (variables with their bounds, constraints,
\* general constraints, objective), and the notebook's own variables
\* (merit, enroll_probability), objective and budget constraint are as
\* they were before the step.
C19_RemoveUndoesAdd ==
    [][(At("enroll", "remove") /\ pc' = pc + 1) =>
           /\ model' = calls[pred_constr.id].m
           /\ \A v \in DOMAIN m_vars :
                  v[1] \in {"merit", "enroll_probability"}
                      => v \in DOMAIN m_vars' /\ m_vars'[v] = m_vars[v]
           /\ \A k \in 1 .. n :
                  {V("merit", k - 1, 0), y[k]} \subseteq DOMAIN m_vars'
           /\ m_obj' = m_obj
           /\ {c \in m_constrs' : c.name[1] = "R"} = {c \in m_constrs : c.name[1] = "R"}
           /\ \E c \in m_constrs' :
                  c.terms = Budget.terms /\ c.sense = Budget.sense /\ c.rhs = Budget.rhs
           /\ DOMAIN m_vars' \cap pred_constr.vars = {}]_vars

C19_Witness ==
    /\ nb = "enroll"
    /\ n >= 2
    /\ pc \in DOMAIN Program(nb)
    /\ Program(nb)[pc] = "add_predictor_constr_pwl"
    /\ pred_constr.id = 1
    /\ pred_constr.vars # {}
    /\ pred_constr.genconstrs # {}
    /\ model = calls[1].m
    /\ m_genconstrs = {}
    /\ Cardinality(m_constrs) = 1

(***************************************************************************)
(* Reading the solution after optimize.                                    *)
(***************************************************************************)
\* The statements of the notebooks that read solution attributes: x.X and
\* m.ObjVal, p.gppd.X, pred_constr.get_error() and
\* pred_constr.input_values.
ReadingStatements == {"solution", "get_error", "input_values", "result"}

\* C20: in every notebook, a statement that reads solution attributes
\* (x.X, m.ObjVal, p.gppd.X, get_error, input_values) runs only after
\* optimize has returned with a solution available, on every way optimize
\* can end.
C20_ReadsOnlyWithASolution ==
    [][(/\ \E stmt \in ReadingStatements : At(nb, stmt)
        /\ pc' # pc \/ raised' # raised)
           => solver = "idle" /\ status # "LOADED" /\ sol # NoSol]_vars

\* The adversarial run stopped on BestBdStop before any incumbent, and the
\* cell that reads x.X has run.
C20_Witness ==
    /\ nb = "adversarial"
    /\ stop = "BestBdStop"
    /\ sol = NoSol
    /\ pc \in DOMAIN Program(nb)
    /\ Program(nb)[pc] = "result"
    /\ raised = "AttributeError"

(***************************************************************************)
(* The network's output activation.                                        *)
(***************************************************************************)
\* The cell that embeds the network (set the activation, embed, restore
\* it) has been left: its last statement has run, or one of its statements
\* raised.
EmbedCell == {"set_identity", "embed", "restore"}
EmbedCellExited ==
    \/ ~Before("restore")
    \/ raised # "" /\ pc \in DOMAIN Program(nb) /\ Program(nb)[pc] \in EmbedCell

lp_free_sales == {"demand", "s"}
lp_free == {"demand"}
lp_lb(v) == IF v[1] \in lp_free THEN -INFINITY ELSE 0

\* The variables of region i's regression row with the values the Bounds
\* section fixes them to, the price at val.
LpRowInput(i, val) ==
    [v \in {V("reg_features", i, j) : j \in 0 .. NColumns - 1} |->
        IF v[3] = PriceColumn THEN val ELSE reg_features_fixed[i + 1][v[3] + 1]]

\* The prices and the sales the rows are sampled at, in tenths.
PriceSample == {5 * k : k \in (2 * a_min) .. (2 * a_max)}
SalesSample == -20 .. 100

\* The demand linreg[i,0] gives region i at the price val.
LpDemand(i, val) ==
    SolveFor(linreg(i), V("demand", i, 0), LpRowInput(i, val))

\* The points (price, demand, sales) of region i that the exported model
\* allows: linreg[i,0] and R(9+i) hold and the sales respect their bound.
LpRowSolutions(i) ==
    {a \in UNION {{LpRowInput(i, val) @@ (V("demand", i, 0) :> dem)
                       @@ (V("s", i, 0) :> sales) :
                      dem \in LpDemand(i, val), sales \in SalesSample} :
                  val \in PriceSample} :
        /\ Sat(linreg(i), a)
        /\ Sat(lp_row(9 + i), a)
        /\ a[V("s", i, 0)] >= lp_lb(V("s", i, 0))
        /\ a[V("demand", i, 0)] >= lp_lb(V("demand", i, 0))}

PriceSolving == nb = "price" /\ solver = "running" /\ pred_constr # NoPred

\* C22: in every feasible solution of the price model the predicted demand
\* of every region is non-negative although demand is declared free: the
\* sales are at least 0 and at most the demand, so a price at which the
\* regression predicts a negative demand is infeasible.
C22_DemandNonNegative ==
    PriceSolving =>
        /\ \A a \in Feasible : \A k \in 1 .. n :
               /\ m_vars[d[k]][1] = -INFINITY
               /\ a[d[k]] >= 0
        /\ \A i \in 0 .. Len(linreg_coef) - 1 : \A a \in LpRowSolutions(i) :
               a[V("demand", i, 0)] >= 0

\* The model is at the solver with feasible points, and the regression
\* predicts a negative demand for a region at a price within the bounds:
\* no point the model allows has that price, others have another price.
C22_Witness ==
    /\ PriceSolving
    /\ Feasible # {}
    /\ \E i \in 0 .. Len(linreg_coef) - 1 : \E val \in PriceSample :
           /\ \E dem \in LpDemand(i, val) : dem < 0
           /\ \A a \in LpRowSolutions(i) : a[price(i)] # val
           /\ \E a \in LpRowSolutions(i) : a[price(i)] < val

(***************************************************************************)
(* The encoding of the regions.                                            *)
(***************************************************************************)
\* A row of indicator columns is one-hot: zeros but for at most one 1.
IsOneHot(row) ==
    /\ \A j \in DOMAIN row : row[j] \in {0, Scale}
    /\ Cardinality({j \in DOMAIN row : row[j] = Scale}) <= 1
NoIndicator(row) == \A j \in DOMAIN row : row[j] = 0

\* The indicator columns of row i of the exported model: columns 0..6.
LpIndicators(i) ==
    [j \in 1 .. Len(categories) - 1 |-> reg_features_fixed[i + 1][j]]
\* The indicator columns of row i of the regression's input in m.
Indicators(i) ==
    [j \in 1 .. Len(categories) - 1 |-> m_vars[V("reg_features", i, j - 1)]]

PriceEmbedded == nb = "price" /\ pred_constr # NoPred /\ raised = ""

\* C23: the region encoding of the regression input is one-hot with the
\* first category dropped: every row has at most one of the 7 indicator
\* columns at 1 and the others at 0, exactly one of the 8 regions (the
\* first category) has no indicator set, and two different regions never
\* have the same encoding.
C23_OneHotFirstDropped ==
    PriceEmbedded =>
        /\ \A r \in DOMAIN regions :
               /\ Len(OneHot(regions[r])) = 7
               /\ IsOneHot(OneHot(regions[r]))
               /\ IsOneHot(LpIndicators(r - 1))
               /\ LpIndicators(r - 1) = OneHot(regions[r])
               /\ NoIndicator(OneHot(regions[r])) <=> regions[r] = categories[1]
        /\ Cardinality({r \in DOMAIN regions : NoIndicator(LpIndicators(r - 1))}) = 1
        /\ \A r1, r2 \in DOMAIN regions :
               r1 # r2 => /\ OneHot(regions[r1]) # OneHot(regions[r2])
                          /\ LpIndicators(r1 - 1) # LpIndicators(r2 - 1)
        /\ \A i \in Rows :
               /\ \A j \in 1 .. 7 :
                      /\ Indicators(i)[j][1] = Indicators(i)[j][2]
                      /\ Indicators(i)[j][1] = OneHot(regions[i + 1])[j]
               /\ \A k \in Rows :
                      k # i => \E j \in 1 .. 7 : Indicators(i)[j] # Indicators(k)[j]

\* The regression is embedded for two regions: one has no indicator set,
\* the other exactly one.
C23_Witness ==
    /\ PriceEmbedded
    /\ n >= 2
    /\ \A j \in 1 .. 7 : Indicators(0)[j][1] = 0
    /\ \E j \in 1 .. 7 : Indicators(1)[j][1] = Scale
    /\ \E r \in DOMAIN regions : OneHot(regions[r])[7] = Scale

(***************************************************************************)
(* The right and the wrong label.                                          *)
(***************************************************************************)
Labels == 0 .. NLabels - 1

\* The orders np.argsort may return for the weights out: the labels by
\* increasing weight, labels of equal weight in any order.
ArgSorts(out) ==
    {s \in [1 .. NLabels -> Labels] :
        /\ \A i, j \in 1 .. NLabels : i # j => s[i] # s[j]
        /\ \A i, j \in 1 .. NLabels : i < j => out[s[i] + 1] <= out[s[j] + 1]}

\* r is a label of the largest weight, w one of the largest weight among
\* the other labels.
RightAndWrong(out, r, w) ==
    /\ r \in Labels
    /\ w \in Labels
    /\ r # w
    /\ \A l \in Labels : out[l + 1] <= out[r + 1]
    /\ \A l \in Labels \ {r} : out[l + 1] <= out[w + 1]

\* C24: right_label and wrong_label are always two different label
\* indices: right_label is a label with the largest predicted probability
\* for the example and wrong_label a label with the largest probability
\* among the remaining ones, also when probabilities tie (whatever the
\* order the sort gives to labels of equal probability), and the
\* objective is set on their two output variables.
C24_TwoDifferentLabels ==
    (nb = "adversarial" /\ pc <= 2) =>
        LET out == Output(example)
        IN  /\ sorted_labels \in ArgSorts(out)
            /\ RightAndWrong(out, right_label, wrong_label)
            /\ \A s \in ArgSorts(out) : RightAndWrong(out, s[NLabels], s[NLabels - 1])
            /\ m_obj # NoObj =>
                   /\ m_obj.lin[1][2] = adv_y[wrong_label + 1]
                   /\ m_obj.lin[2][2] = adv_y[right_label + 1]
                   /\ m_obj.lin[1][2] # m_obj.lin[2][2]

\* The objective is set for an example on which two labels tie for the
\* largest probability.
C24_Witness ==
    /\ nb = "adversarial"
    /\ pc = 2
    /\ m_obj # NoObj
    /\ Output(example)[right_label + 1] = Output(example)[wrong_label + 1]
    /\ Cardinality(ArgSorts(Output(example))) > 1

(***************************************************************************)
(* The build-and-test workflow and tox.                                    *)
(***************************************************************************)
RanEnvs == {ran[i].env : i \in DOMAIN ran}
StepIndex(stmt) == CHOOSE k \in DOMAIN Program("ci") : Program("ci")[k] = stmt
\* The step stmt of the job has run: to its end, or to a failure.
StepRan(stmt) ==
    \/ pc > StepIndex(stmt)
    \/ pc = StepIndex(stmt) /\ raised # ""
JobDone == nb = "ci" /\ raised = "" /\ pc > Len(Program("ci"))

\* The environments the job of Python `version` runs when its tox
\* succeeds: those of tox, and examples.
JobEnvs(version) == Factors(GhEnvs(version)) \cup {<<"examples">>}

\* C25: for a push to a watched branch, every environment of the tox
\* envlist is run by at least one job of the matrix: the py39, py310 and
\* py311 environments by the job of the matching Python version,
\* pre-commit by the 3.9 job, docs by the 3.11 job, and examples by the
\* tox -e examples of every job.
C25_EveryEnvironmentRun ==
    nb = "ci" =>
        /\ \A e \in Factors(envlist) : \E k \in DOMAIN matrix : e \in JobEnvs(matrix[k])
        /\ \A k \in DOMAIN matrix : \A j \in DOMAIN suites :
               \A v \in DOMAIN matrix :
                   <<pythons[k], suites[j]>> \in Factors(GhEnvs(matrix[v])) <=> v = k
        /\ \A v \in DOMAIN matrix :
               /\ <<"pre-commit">> \in Factors(GhEnvs(matrix[v])) <=> matrix[v] = "3.9"
               /\ <<"docs">> \in Factors(GhEnvs(matrix[v])) <=> matrix[v] = "3.11"
               /\ <<"examples">> \notin Factors(GhEnvs(matrix[v]))
        /\ StepRan("checkout") => Watched(branch)
        /\ StepRan("test_with_tox") =>
               Factors(GhEnvs(python_version)) \subseteq RanEnvs
        /\ JobDone =>
               /\ RanEnvs = JobEnvs(python_version)
               /\ \E i \in DOMAIN ran :
                      ran[i].env = <<"examples">> /\ ran[i].invocation = 2

\* The job of Python 3.9 for a push to a release branch is done: it ran
\* pre-commit, its six test environments and examples.
C25_Witness ==
    /\ JobDone
    /\ python_version = "3.9"
    /\ branch = "1.2.x"
    /\ <<"pre-commit">> \in RanEnvs
    /\ <<"examples">> \in RanEnvs
    /\ Cardinality(RanEnvs) = 8

\* C26: in each job the steps run in the listed order and a failed step
\* stops the job: tox starts only after the flake8 syntax check has passed
\* and the licence file has been written with GRB_LICENSE_FILE pointing to
\* it, and tox -e examples starts only after tox has succeeded.
C26_StepsInOrder ==
    nb = "ci" =>
        /\ \A k \in DOMAIN Program("ci") :
               /\ StepRan(Program("ci")[k]) =>
                      \A j \in 1 .. k - 1 : pc > j
               /\ raised # "" => pc <= Len(Program("ci"))
        /\ flake8_runs # <<>> <=> StepRan("lint")
        /\ files # {} <=> StepRan("write_license")
        /\ ran # <<>> <=> StepRan("test_with_tox")
        /\ ran # <<>> =>
               /\ Len(flake8_runs) = 2
               /\ flake8_runs[1].select = lint_select
               /\ flake8_runs[1].exit = 0
               /\ license_file \in files
               /\ \A i \in DOMAIN ran :
                      /\ ran[i].GRB_LICENSE_FILE = license_file
                      /\ ran[i].invocation = 2 =>
                             \A j \in DOMAIN ran :
                                 ran[j].invocation = 1 => j < i /\ ran[j].ok

\* tox -e examples has run in a job, after a tox in which no environment
\* failed.
C26_Witness ==
    /\ nb = "ci"
    /\ \E i \in DOMAIN ran : ran[i].invocation = 2
    /\ \E i \in DOMAIN ran : ran[i].invocation = 1
    /\ license_file \in files
    /\ StepRan("test_with_tox")

\* The classes of flake8 findings that stop the build.
SyntaxClasses == {"E9", "F63", "F7", "F82"}
Fatal == {f \in findings : Prefixes(f) \cap SyntaxClasses # {}}

\* C27: the lint step fails the build only on flake8 findings of the
\* classes E9, F63, F7 and F82; the second flake8 run, for complexity
\* above 10 and lines longer than 127, never fails the build whatever it
\* finds.
C27_LintFailsOnlyOnErrors ==
    nb = "ci" =>
        /\ raised = "lint" =>
               /\ Fatal # {}
               /\ Len(flake8_runs) = 1
               /\ flake8_runs[1].found = Fatal
        /\ (StepRan("lint") /\ Fatal # {}) => raised = "lint"
        /\ pc > StepIndex("lint") =>
               /\ Fatal = {}
               /\ Len(flake8_runs) = 2
               /\ flake8_runs[2].exit = 0
               /\ flake8_runs[2].found = findings

\* The second flake8 run found a complex function and a long line, and
\* the job went on.
C27_Witness ==
    /\ nb = "ci"
    /\ pc > StepIndex("lint")
    /\ Len(flake8_runs) = 2
    /\ flake8_runs[2].found = {"E501", "C901"}

\* The place of the environment e in the run.
RanAt(e) == CHOOSE i \in DOMAIN ran : ran[i].env = e

\* C28: in a coverage run the clean environment runs before the py39,
\* py310 and py311 test environments and the report environment after
\* all three, so the report covers exactly the data appended by the
\* current run.
C28_CleanFirstReportLast ==
    (nb = "coverage" /\ ran # <<>>) =>
        /\ \A k \in DOMAIN pythons :
               /\ RanAt(<<"clean">>) < RanAt(<<pythons[k]>>)
               /\ RanAt(<<pythons[k]>>) < RanAt(<<"report">>)
        /\ reported = {"coverage"}

\* tox -p ran report first on the data an earlier run had left.
C28_Witness ==
    /\ nb = "coverage"
    /\ parallel
    /\ ran # <<>>
    /\ ran[1].env = <<"report">>
    /\ reported = {"stale"}
    /\ \A e \in Factors(coverage_run) : Depends(e) = {}

====
